---- MODULE Spec2Model ----
(***************************************************************************)
(* A model of the letta-lite agent core (crate letta-core): memory blocks, *)
(* the message buffer, the context manager, the built-in tools and the     *)
(* agent step loop; of the relational store's migrations and block table   *)
(* (crate letta-storage); of the sync client's conflict resolution (crate  *)
(* letta-sync); and of the host binding's registry and locks (crate        *)
(* letta-ffi).                                                             *)
(*                                                                         *)
(* Representation.  A Rust String is a sequence of UTF-8 bytes (integers   *)
(* 0..255), so that len() is Len and slicing is SubSeq on byte offsets.    *)
(* Block labels, descriptions and values, message contents and archival    *)
(* texts are such byte sequences.  Identifiers that the code only compares *)
(* (tool names, call ids, JSON keys, roles, error kinds) are TLA+ strings; *)
(* Utf8 gives their bytes where the code formats them into text.  The     *)
(* agent's own id and timestamps are part of the state (info) and are read *)
(* from the clock `now`; the ids and timestamps of messages and archival   *)
(* entries are not, and where they are serialized a placeholder of the     *)
(* real shape stands for them.                                             *)
(***************************************************************************)
EXTENDS Integers, Sequences, FiniteSets, TLC

VARIABLES
    config,            \* AgentConfig (immutable after Agent::new)
    provider,          \* the agent's LlmProvider (immutable after Agent::new)
    tool_executor,     \* the agent's ToolExecutor: tool name -> handler
    memory,            \* state.memory: label -> MemoryBlock
    messages,          \* state.messages.messages
    max_size,          \* state.messages.max_size
    archival_entries,  \* state.archival_entries
    current_tokens,    \* context.window.current_tokens
    pc,                \* position of the running call: "idle", "loop", "await"
    call,              \* the running (or last) call: name, input, buffer before
    iterations,        \* reply_only's local `iterations`
    tool_trace,        \* reply_only's local `tool_trace`
    result,            \* what the last call returned
    provider_calls,    \* provider.complete calls made by the running (or last) call
    pushed,            \* messages pushed by the running (or last) call, in order
    iter_pushed,       \* messages pushed by the last loop iteration
    last_iter,         \* the last loop iteration's completion and the outcome of its batch
    ops,               \* number of host calls made so far
    request,           \* the CompletionRequest in flight: its possible prompt texts
    info,              \* state.id, name, created_at, updated_at, metadata
    now,               \* the clock read by Utc::now()
    af,                \* the AgentFileV1 last exported, if any
    db,                \* the database file of the store: its tables
    runs,              \* per host thread: its Storage::new / run_migrations in progress
    sync,              \* the host's SyncClient, if any, and the conflict it holds
    AGENTS,            \* the binding's registry: a Mutex of the agents' slots
    STORAGE,           \* the binding's Mutex<Option<Storage>>
    SYNC_CLIENT,       \* the binding's Mutex<Option<SyncClient>>
    handles,           \* the AgentHandles letta_create_agent has allocated
    host_calls         \* per host thread: its binding call in progress

vars == <<config, provider, tool_executor, memory, messages, max_size, archival_entries, current_tokens,
          pc, call, iterations, tool_trace, result, provider_calls, pushed,
          iter_pushed, last_iter, ops, request, info, now, af, db, runs, sync,
          AGENTS, STORAGE, SYNC_CLIENT, handles, host_calls>>

\* the state of the host binding
binding == <<AGENTS, STORAGE, SYNC_CLIENT, handles, host_calls>>

---------------------------------------------------------------------------
(* Bounds of the model *)

\* host calls (step, send_only, setters, ...) in one behaviour
MaxOps == 2
\* archival entries kept per agent
MaxArchival == 2
\* tool calls in one completion
MaxBatch == 2
\* loop iterations of one call in which the provider may return any completion;
\* in later iterations it returns one of NarrowCompletions
VaryIters == 1

---------------------------------------------------------------------------
(* Strings as UTF-8 byte sequences *)

Min(a, b) == IF a < b THEN a ELSE b

\* usize::saturating_sub
saturating_sub(a, b) == IF a > b THEN a - b ELSE 0

\* "x".repeat(n)
repeat(byte, n) == [i \in 1..n |-> byte]

\* a continuation byte 0b10xxxxxx
IsContinuation(b) == b >= 128 /\ b < 192

\* str::is_char_boundary, on a 0-based byte offset
is_char_boundary(s, i) ==
    \/ i = 0
    \/ i = Len(s)
    \/ (i < Len(s) /\ ~IsContinuation(s[i + 1]))

\* width of the scalar whose lead byte is b
ScalarWidth(b) ==
    IF b < 128 THEN 1 ELSE IF b < 224 THEN 2 ELSE IF b < 240 THEN 3 ELSE 4

\* the scalars (chars) of a string, each as its own byte sequence: a scalar
\* starts at every byte that is no continuation byte
Chars(s) ==
    LET starts == SelectSeq([i \in 1..Len(s) |-> i],
                            LAMBDA i : ~IsContinuation(s[i]))
    IN [k \in 1..Len(starts) |->
           SubSeq(s, starts[k],
                  IF k < Len(starts) THEN starts[k + 1] - 1 ELSE Len(s))]

RECURSIVE Flatten(_)
Flatten(cs) == IF cs = <<>> THEN <<>> ELSE cs[1] \o Flatten(Tail(cs))

\* char::is_whitespace / regex \s on the scalars the model uses:
\* TAB, LF, VT, FF, CR, SPACE, U+3000 IDEOGRAPHIC SPACE
IsWhitespace(c) ==
    \/ (Len(c) = 1 /\ (c[1] = 32 \/ (c[1] >= 9 /\ c[1] <= 13)))
    \/ c = <<227, 128, 128>>

\* the regex class ["'\x{201c}\x{201d}]
IsQuote(c) ==
    \/ c = <<34>>
    \/ c = <<39>>
    \/ c = <<226, 128, 156>>
    \/ c = <<226, 128, 157>>

RECURSIVE TrimStart(_)
TrimStart(cs) ==
    IF cs # <<>> /\ IsWhitespace(cs[1]) THEN TrimStart(Tail(cs)) ELSE cs

RECURSIVE TrimEnd(_)
TrimEnd(cs) ==
    IF cs # <<>> /\ IsWhitespace(cs[Len(cs)])
    THEN TrimEnd(SubSeq(cs, 1, Len(cs) - 1))
    ELSE cs

\* str::trim, on the scalars of the string
trim(cs) == TrimEnd(TrimStart(cs))

\* haystack.contains(needle) on byte sequences
contains(hay, needle) ==
    \E i \in 0..(Len(hay) - Len(needle)) :
        SubSeq(hay, i + 1, i + Len(needle)) = needle

\* str::to_lowercase on the ASCII letters (the model's texts hold no other cased scalar)
to_lowercase(s) ==
    [i \in 1..Len(s) |-> IF s[i] >= 65 /\ s[i] <= 90 THEN s[i] + 32 ELSE s[i]]

---------------------------------------------------------------------------
(* memory.rs *)

default_limit == 2000

\* "I am a helpful AI assistant."
PersonaDefault ==
    <<73, 32, 97, 109, 32, 97, 32, 104, 101, 108, 112, 102, 117, 108, 32, 65,
      73, 32, 97, 115, 115, 105, 115, 116, 97, 110, 116, 46>>

\* "User preferences and context will be stored here."
HumanDefault ==
    <<85, 115, 101, 114, 32, 112, 114, 101, 102, 101, 114, 101, 110, 99, 101,
      115, 32, 97, 110, 100, 32, 99, 111, 110, 116, 101, 120, 116, 32, 119,
      105, 108, 108, 32, 98, 101, 32, 115, 116, 111, 114, 101, 100, 32, 104,
      101, 114, 101, 46>>

\* MemoryBlock::new
MemoryBlock_new(label, description, value) ==
    [label |-> label, description |-> description, value |-> value,
     limit |-> default_limit]

Ok(v) == [ok |-> TRUE, v |-> v]
Err(e) == [ok |-> FALSE, err |-> e]
\* a panic unwinds out of the call; nothing after it in the handler runs
Panic == [ok |-> FALSE, err |-> [kind |-> "panic"]]

MemoryError(msg) == [kind |-> "Memory", msg |-> msg]

\* MemoryBlock::replace: the block after the call, or the error
MemoryBlock_replace(block, new) ==
    IF Len(new) > block.limit
    THEN Err(MemoryError("Value exceeds limit"))
    ELSE Ok([block EXCEPT !.value = new])

\* MemoryBlock::append: new_value[start..] panics when start is inside a scalar
MemoryBlock_append(block, text) ==
    LET new_value == block.value \o <<10>> \o text
    IN IF Len(new_value) > block.limit
       THEN LET start == saturating_sub(Len(new_value), block.limit)
            IN IF is_char_boundary(new_value, start)
               THEN Ok([block EXCEPT
                          !.value = SubSeq(new_value, start + 1, Len(new_value))])
               ELSE Panic
       ELSE Ok([block EXCEPT !.value = new_value])

\* the labels "persona" and "human"
Persona == <<112, 101, 114, 115, 111, 110, 97>>
Human == <<104, 117, 109, 97, 110>>

\* "Agent's personality and behavior"
PersonaDescription ==
    <<65, 103, 101, 110, 116, 39, 115, 32, 112, 101, 114, 115, 111, 110, 97,
      108, 105, 116, 121, 32, 97, 110, 100, 32, 98, 101, 104, 97, 118, 105,
      111, 114>>

\* "Information about the user"
HumanDescription ==
    <<73, 110, 102, 111, 114, 109, 97, 116, 105, 111, 110, 32, 97, 98, 111,
      117, 116, 32, 116, 104, 101, 32, 117, 115, 101, 114>>

\* "User-defined block"
UserDefinedDescription ==
    <<85, 115, 101, 114, 45, 100, 101, 102, 105, 110, 101, 100, 32, 98, 108,
      111, 99, 107>>

\* ChatMemory::new / Memory::new_chat: the blocks map
Memory_new_chat ==
    [l \in {Persona, Human} |->
        IF l = Persona
        THEN MemoryBlock_new(Persona, PersonaDescription, PersonaDefault)
        ELSE MemoryBlock_new(Human, HumanDescription, HumanDefault)]

\* Memory::set_block: the blocks map after the call, or the error
Memory_set_block(mem, label, value) ==
    IF label \in DOMAIN mem
    THEN LET r == MemoryBlock_replace(mem[label], value)
         IN IF r.ok THEN Ok([mem EXCEPT ![label] = r.v]) ELSE r
    ELSE Ok([l \in (DOMAIN mem) \cup {label} |->
                IF l = label
                THEN MemoryBlock_new(label, UserDefinedDescription, value)
                ELSE mem[l]])

\* Memory::append_block
Memory_append_block(mem, label, text) ==
    IF label \in DOMAIN mem
    THEN LET r == MemoryBlock_append(mem[label], text)
         IN IF r.ok THEN Ok([mem EXCEPT ![label] = r.v]) ELSE r
    ELSE Err(MemoryError("Block not found"))

RECURSIVE SumOver(_, _)
\* sum of f[x] over the set S
SumOver(f, S) ==
    IF S = {} THEN 0
    ELSE LET x == CHOOSE y \in S : TRUE IN f[x] + SumOver(f, S \ {x})

\* Memory::token_estimate
Memory_token_estimate(mem) ==
    SumOver([l \in DOMAIN mem |-> Len(mem[l].value) \div 4], DOMAIN mem)

\* the orders in which a HashMap with the keys S may be iterated
IterationOrders(S) ==
    {o \in [1..Cardinality(S) -> S] : \A x \in S : \E i \in DOMAIN o : o[i] = x}

\* "<{label}_block>\n{value}\n</{label}_block>\n\n"
RenderBlock(block) ==
    <<60>> \o block.label \o <<95, 98, 108, 111, 99, 107, 62, 10>>
    \o block.value
    \o <<10, 60, 47>> \o block.label \o <<95, 98, 108, 111, 99, 107, 62, 10, 10>>

RECURSIVE render_default(_, _)
\* Memory::render_default, the blocks map iterated in the given order
render_default(mem, order) ==
    IF order = <<>> THEN <<>>
    ELSE RenderBlock(mem[order[1]]) \o render_default(mem, Tail(order))

\* Memory::render without a template: the texts it may return, one for each
\* iteration order of the blocks map
Memory_render(mem) ==
    {render_default(mem, order) : order \in IterationOrders(DOMAIN mem)}

---------------------------------------------------------------------------
(* serde_json values *)

None == [some |-> FALSE]
Some(x) == [some |-> TRUE, v |-> x]

JNull == [t |-> "null"]
JBool(b) == [t |-> "bool", b |-> b]
JNum(n) == [t |-> "num", n |-> n]
JStr(s) == [t |-> "str", s |-> s]
JArr(a) == [t |-> "arr", a |-> a]
\* an object is a function from its keys (TLA+ strings) to values
JObj(o) == [t |-> "obj", o |-> o]

\* Value::get(key).and_then(|v| v.as_str()).unwrap_or_default(): an absent
\* or non-string member read as the empty string
get_str_or_default(args, key) ==
    IF args.t = "obj" /\ key \in DOMAIN args.o /\ args.o[key].t = "str"
    THEN Some(args.o[key].s)
    ELSE Some(<<>>)

\* Value::get(key).and_then(|v| v.as_str())
get_str(args, key) ==
    IF args.t = "obj" /\ key \in DOMAIN args.o /\ args.o[key].t = "str"
    THEN Some(args.o[key].s)
    ELSE None

\* Value::get(key).and_then(|v| v.as_u64())
get_u64(args, key) ==
    IF args.t = "obj" /\ key \in DOMAIN args.o /\ args.o[key].t = "num"
       /\ args.o[key].n >= 0
    THEN Some(args.o[key].n)
    ELSE None

\* Option::unwrap_or
unwrap_or(opt, d) == IF opt.some THEN opt.v ELSE d

\* the bytes of the identifiers the code formats into text
Utf8(s) ==
    CASE s = "arguments" -> <<97, 114, 103, 117, 109, 101, 110, 116, 115>>
      [] s = "content" -> <<99, 111, 110, 116, 101, 110, 116>>
      [] s = "count" -> <<99, 111, 117, 110, 116>>
      [] s = "folder" -> <<102, 111, 108, 100, 101, 114>>
      [] s = "id" -> <<105, 100>>
      [] s = "label" -> <<108, 97, 98, 101, 108>>
      [] s = "message" -> <<109, 101, 115, 115, 97, 103, 101>>
      [] s = "metadata" -> <<109, 101, 116, 97, 100, 97, 116, 97>>
      [] s = "name" -> <<110, 97, 109, 101>>
      [] s = "query" -> <<113, 117, 101, 114, 121>>
      [] s = "results" -> <<114, 101, 115, 117, 108, 116, 115>>
      [] s = "role" -> <<114, 111, 108, 101>>
      [] s = "status" -> <<115, 116, 97, 116, 117, 115>>
      [] s = "text" -> <<116, 101, 120, 116>>
      [] s = "timestamp" -> <<116, 105, 109, 101, 115, 116, 97, 109, 112>>
      [] s = "tool_call_id" -> <<116, 111, 111, 108, 95, 99, 97, 108, 108, 95, 105, 100>>
      [] s = "tool_calls" -> <<116, 111, 111, 108, 95, 99, 97, 108, 108, 115>>
      [] s = "top_k" -> <<116, 111, 112, 95, 107>>
      [] s = "value" -> <<118, 97, 108, 117, 101>>
      [] s = "system" -> <<115, 121, 115, 116, 101, 109>>
      [] s = "user" -> <<117, 115, 101, 114>>
      [] s = "assistant" -> <<97, 115, 115, 105, 115, 116, 97, 110, 116>>
      [] s = "tool" -> <<116, 111, 111, 108>>
      [] s = "memory_replace" -> <<109, 101, 109, 111, 114, 121, 95, 114, 101, 112, 108, 97, 99, 101>>
      [] s = "memory_append" -> <<109, 101, 109, 111, 114, 121, 95, 97, 112, 112, 101, 110, 100>>
      [] s = "archival_insert" -> <<97, 114, 99, 104, 105, 118, 97, 108, 95, 105, 110, 115, 101, 114, 116>>
      [] s = "archival_search" -> <<97, 114, 99, 104, 105, 118, 97, 108, 95, 115, 101, 97, 114, 99, 104>>
      [] s = "conversation_search" -> <<99, 111, 110, 118, 101, 114, 115, 97, 116, 105, 111, 110, 95, 115, 101, 97, 114, 99, 104>>
      [] s = "call_1" -> <<99, 97, 108, 108, 95, 49>>
      [] s = "call_2" -> <<99, 97, 108, 108, 95, 50>>
      [] s = "no_such_tool" -> <<110, 111, 95, 115, 117, 99, 104, 95, 116, 111, 111, 108>>

\* serde_json's Map is a BTreeMap: keys are written in byte order
KeyOrder ==
    <<"arguments", "content", "count", "folder", "id", "label", "message",
      "metadata", "name", "query", "results", "role", "status", "text",
      "timestamp", "tool_call_id", "tool_calls", "top_k", "value">>

RECURSIVE Digits(_)
\* the decimal digits of n
Digits(n) ==
    IF n < 10 THEN <<48 + n>> ELSE Digits(n \div 10) \o <<48 + (n % 10)>>

\* serde_json's escaping of one byte: the quote, the backslash, the line feed
EscapeByte(b) ==
    IF b = 34 THEN <<92, 34>>
    ELSE IF b = 92 THEN <<92, 92>>
    ELSE IF b = 10 THEN <<92, 110>>
    ELSE <<b>>

RECURSIVE Escape(_)
\* serde_json's string escaping, byte by byte in order (the string is
\* split in halves to keep the evaluation shallow)
Escape(s) ==
    IF s = <<>> THEN <<>>
    ELSE IF Len(s) = 1 THEN EscapeByte(s[1])
    ELSE LET h == Len(s) \div 2
         IN Escape(SubSeq(s, 1, h)) \o Escape(SubSeq(s, h + 1, Len(s)))

RECURSIVE to_string(_)
RECURSIVE ArrToString(_)
RECURSIVE ObjToString(_, _)

\* the elements of an array, comma separated
ArrToString(a) ==
    IF a = <<>> THEN <<>>
    ELSE to_string(a[1]) \o (IF Len(a) > 1 THEN <<44>> ELSE <<>>)
         \o ArrToString(Tail(a))

\* the keys of object o in the order of serialization
PresentKeys(o) == SelectSeq(KeyOrder, LAMBDA k : k \in DOMAIN o)

\* the members of object o with the given keys, comma separated
ObjToString(o, keys) ==
    IF keys = <<>> THEN <<>>
    ELSE <<34>> \o Utf8(keys[1]) \o <<34, 58>> \o to_string(o[keys[1]])
         \o (IF Len(keys) > 1 THEN <<44>> ELSE <<>>)
         \o ObjToString(o, Tail(keys))

\* serde_json::to_string
to_string(v) ==
    CASE v.t = "null" -> <<110, 117, 108, 108>>
      [] v.t = "bool" -> IF v.b THEN <<116, 114, 117, 101>>
                         ELSE <<102, 97, 108, 115, 101>>
      [] v.t = "num" -> Digits(v.n)
      [] v.t = "str" -> <<34>> \o Escape(v.s) \o <<34>>
      [] v.t = "arr" -> <<91>> \o ArrToString(v.a) \o <<93>>
      [] v.t = "obj" -> <<123>> \o ObjToString(v.o, PresentKeys(v.o)) \o <<125>>

\* a chrono timestamp as serialized: the shape of Utc::now(), "1970-01-01T00:00:00Z"
TimestampJson ==
    JStr(<<49, 57, 55, 48, 45, 48, 49, 45, 48, 49, 84, 48, 48, 58, 48, 48,
           58, 48, 48, 90>>)

\* a UUID as serialized: "00000000-0000-4000-8000-000000000000"
UuidJson ==
    JStr(<<48, 48, 48, 48, 48, 48, 48, 48, 45, 48, 48, 48, 48, 45, 52, 48,
           48, 48, 45, 56, 48, 48, 48, 45, 48, 48, 48, 48, 48, 48, 48, 48,
           48, 48, 48, 48>>)

---------------------------------------------------------------------------
(* message.rs *)

\* Message::system / user / assistant / tool
Message_system(content) ==
    [role |-> "system", content |-> content, tool_calls |-> None,
     tool_call_id |-> None]
Message_user(content) ==
    [role |-> "user", content |-> content, tool_calls |-> None,
     tool_call_id |-> None]
Message_assistant(content) ==
    [role |-> "assistant", content |-> content, tool_calls |-> None,
     tool_call_id |-> None]
Message_tool(tool_call_id, content) ==
    [role |-> "tool", content |-> content, tool_calls |-> None,
     tool_call_id |-> Some(tool_call_id)]

\* Message::with_tool_calls
with_tool_calls(msg, calls) == [msg EXCEPT !.tool_calls = Some(calls)]

\* Message::token_estimate
Message_token_estimate(msg) == Len(msg.content) \div 4

RECURSIVE RemoveBack(_, _)
\* the eviction loop removing the newest message instead of the oldest
RemoveBack(msgs, max) ==
    IF Len(msgs) > max THEN RemoveBack(SubSeq(msgs, 1, Len(msgs) - 1), max)
    ELSE msgs

RECURSIVE RemoveFront(_, _)
\* the loop `while len > max_size { remove(0) }`
RemoveFront(msgs, max) ==
    IF Len(msgs) > max THEN RemoveFront(Tail(msgs), max) ELSE msgs

\* a push without the eviction loop
MessageBuffer_push_unbounded(msgs, max, message) == Append(msgs, message)

\* MessageBuffer::push
MessageBuffer_push(msgs, max, message) == RemoveFront(Append(msgs, message), max)

\* iter().filter(keep), keep a function of the element's index
Filter(s, keep) ==
    LET kept == SelectSeq([i \in 1..Len(s) |-> i], LAMBDA i : keep[i])
    IN [k \in 1..Len(kept) |-> s[kept[k]]]

\* iter().take(n)
take(s, n) == SubSeq(s, 1, Min(n, Len(s)))

\* MessageBuffer::search
MessageBuffer_search(msgs, query, limit) ==
    take(Filter(msgs, [i \in 1..Len(msgs) |->
                         contains(to_lowercase(msgs[i].content), to_lowercase(query))]),
         limit)

\* a ToolCallInfo as a serde_json value
ToolCallInfoJson(tc) ==
    JObj([id |-> JStr(Utf8(tc.id)), name |-> JStr(Utf8(tc.name)),
          arguments |-> tc.arguments])

\* a Message as a serde_json value (derive(Serialize): absent options are skipped)
MessageJson(m) ==
    LET base == [id |-> UuidJson, role |-> JStr(Utf8(m.role)),
                 content |-> JStr(m.content), timestamp |-> TimestampJson,
                 metadata |-> JObj(<<>>)]
        keys == DOMAIN base
                \cup (IF m.tool_calls.some THEN {"tool_calls"} ELSE {})
                \cup (IF m.tool_call_id.some THEN {"tool_call_id"} ELSE {})
    IN JObj([k \in keys |->
               IF k = "tool_calls"
               THEN JArr([i \in 1..Len(m.tool_calls.v) |->
                            ToolCallInfoJson(m.tool_calls.v[i])])
               ELSE IF k = "tool_call_id" THEN JStr(Utf8(m.tool_call_id.v))
               ELSE base[k]])

---------------------------------------------------------------------------
(* context.rs *)

\* ContextManager::new: summarization_threshold = 0.8
\* ContextManager::should_summarize: current as f32 / max as f32 >= 0.8f32.
\* For max_tokens below 2^22 the f32 quotient is on the same side of 0.8f32 as
\* the exact quotient is of 4/5; x/0 is +inf (true) and 0/0 is NaN (false).
should_summarize(current, max) ==
    IF max = 0 THEN current > 0 ELSE 5 * current >= 4 * max

ContextOverflow(current, max) ==
    [kind |-> "ContextOverflow", current |-> current, max |-> max]

\* check_overflow refusing a total equal to the maximum
check_overflow_at_limit(current, max, additional_tokens) ==
    LET total == current + additional_tokens
    IN IF total >= max THEN Err(ContextOverflow(total, max)) ELSE Ok(TRUE)

\* ContextManager::check_overflow
check_overflow(current, max, additional_tokens) ==
    LET total == current + additional_tokens
    IN IF total > max THEN Err(ContextOverflow(total, max)) ELSE Ok(TRUE)

RECURSIVE SumTokens(_)
\* the sum of the messages' estimates (the sequence is split in halves to
\* keep the evaluation shallow)
SumTokens(msgs) ==
    IF msgs = <<>> THEN 0
    ELSE IF Len(msgs) = 1 THEN Message_token_estimate(msgs[1])
    ELSE LET h == Len(msgs) \div 2
         IN SumTokens(SubSeq(msgs, 1, h)) + SumTokens(SubSeq(msgs, h + 1, Len(msgs)))

\* build_prompt including the oldest messages instead of the most recent
IncludedMessagesOldest(msgs, max_messages) ==
    SubSeq(msgs, 1, Min(Len(msgs), max_messages))

\* the messages build_prompt includes: &messages[start_idx..]
IncludedMessages(msgs, max_messages) ==
    LET message_count == Min(Len(msgs), max_messages)
        start_idx == saturating_sub(Len(msgs), message_count)
    IN SubSeq(msgs, start_idx + 1, Len(msgs))

\* the token count with the system prompt's quotient rounded up
PromptTokensRoundedUp(system_prompt, mem, msgs, max_messages) ==
    ((Len(system_prompt) + 3) \div 4)
    + Memory_token_estimate(mem)
    + SumTokens(IncludedMessages(msgs, max_messages))

\* the token_count build_prompt passes to update_usage
PromptTokens(system_prompt, mem, msgs, max_messages) ==
    (Len(system_prompt) \div 4)
    + Memory_token_estimate(mem)
    + SumTokens(IncludedMessages(msgs, max_messages))

RECURSIVE join(_, _)
\* [String]::join
join(parts, sep) ==
    IF parts = <<>> THEN <<>>
    ELSE IF Len(parts) = 1 THEN parts[1]
    ELSE LET h == Len(parts) \div 2
         IN join(SubSeq(parts, 1, h), sep) \o sep
            \o join(SubSeq(parts, h + 1, Len(parts)), sep)

\* build_prompt's line for one message: "System: ", "User: ", "Assistant: ",
\* "Tool [{tool_call_id or unknown}]: " before the content
MessageLine(msg) ==
    (CASE msg.role = "system" -> <<83, 121, 115, 116, 101, 109, 58, 32>>
       [] msg.role = "user" -> <<85, 115, 101, 114, 58, 32>>
       [] msg.role = "assistant" ->
              <<65, 115, 115, 105, 115, 116, 97, 110, 116, 58, 32>>
       [] msg.role = "tool" ->
              <<84, 111, 111, 108, 32, 91>>
              \o (IF msg.tool_call_id.some THEN Utf8(msg.tool_call_id.v)
                  ELSE <<117, 110, 107, 110, 111, 119, 110>>)
              \o <<93, 58, 32>>)
    \o msg.content

\* prompt_parts.join("\n") for one rendering of the memory
PromptText(system_prompt, memory_str, included) ==
    join(<< <<83, 121, 115, 116, 101, 109, 58, 32>> \o system_prompt,
            <<10, 60, 109, 101, 109, 111, 114, 121, 62, 10>> \o memory_str
                \o <<60, 47, 109, 101, 109, 111, 114, 121, 62>>,
            <<10, 60, 99, 111, 110, 118, 101, 114, 115, 97, 116, 105, 111, 110, 62>> >>
         \o [i \in 1..Len(included) |-> MessageLine(included[i])]
         \o << <<60, 47, 99, 111, 110, 118, 101, 114, 115, 97, 116, 105, 111, 110, 62>> >>,
         <<10>>)

\* ContextManager::build_prompt: the new current_tokens and the outcome, which
\* on success is the set of texts the prompt may be (one for each rendering
\* of the memory)
build_prompt(system_prompt, mem, msgs, max_messages, max_tokens) ==
    LET token_count == PromptTokens(system_prompt, mem, msgs, max_messages)
        within == check_overflow(token_count, max_tokens, 0)
    IN [current_tokens |-> token_count,
        outcome |-> IF within.ok
                    THEN Ok({PromptText(system_prompt, memory_str,
                                        IncludedMessages(msgs, max_messages)) :
                             memory_str \in Memory_render(mem)})
                    ELSE within]

\* "Previous conversation summary:\n"
SummaryHeader ==
    <<80, 114, 101, 118, 105, 111, 117, 115, 32, 99, 111, 110, 118, 101,
      114, 115, 97, 116, 105, 111, 110, 32, 115, 117, 109, 109, 97, 114,
      121, 58, 10>>

\* "User" / "Assistant" / "Other"
RoleName(role) ==
    IF role = "user" THEN <<85, 115, 101, 114>>
    ELSE IF role = "assistant" THEN <<65, 115, 115, 105, 115, 116, 97, 110, 116>>
    ELSE <<79, 116, 104, 101, 114>>

\* one bullet of the summary; &msg.content[..100] panics inside a scalar
SummaryLine(msg) ==
    IF Len(msg.content) > 100
    THEN IF is_char_boundary(msg.content, 100)
         THEN Ok(<<45, 32>> \o RoleName(msg.role) \o <<58, 32>>
                 \o SubSeq(msg.content, 1, 100) \o <<46, 46, 46, 10>>)
         ELSE Panic
    ELSE Ok(<<45, 32>> \o RoleName(msg.role) \o <<58, 32>> \o msg.content \o <<10>>)

RECURSIVE SummaryLines(_)
\* the bullets of the User and Assistant messages among `older`, in order
\* (the sequence is split in halves to keep the evaluation shallow)
SummaryLines(older) ==
    IF older = <<>> THEN Ok(<<>>)
    ELSE IF Len(older) = 1
    THEN IF older[1].role \in {"user", "assistant"} THEN SummaryLine(older[1])
         ELSE Ok(<<>>)
    ELSE LET h == Len(older) \div 2
             first == SummaryLines(SubSeq(older, 1, h))
             rest == SummaryLines(SubSeq(older, h + 1, Len(older)))
         IN IF ~first.ok THEN first
            ELSE IF ~rest.ok THEN rest
            ELSE Ok(first.v \o rest.v)

\* ContextManager::summarize_messages
summarize_messages(msgs, keep_recent) ==
    LET older == SubSeq(msgs, 1, saturating_sub(Len(msgs), keep_recent))
        lines == SummaryLines(older)
    IN IF lines.ok THEN Ok(SummaryHeader \o lines.v) ELSE lines

---------------------------------------------------------------------------
(* tool.rs *)

ToolExecution(msg) == [kind |-> "ToolExecution", msg |-> msg]

\* ToolResult::success / with_heartbeat
ToolResult_success(res) ==
    [success |-> TRUE, result |-> res, request_heartbeat |-> FALSE, error |-> None]
with_heartbeat(tr) == [tr EXCEPT !.request_heartbeat = TRUE]

\* "success"
StatusSuccess == <<115, 117, 99, 99, 101, 115, 115>>

\* "Updated memory block '"
UpdatedPrefix ==
    <<85, 112, 100, 97, 116, 101, 100, 32, 109, 101, 109, 111, 114, 121,
      32, 98, 108, 111, 99, 107, 32, 39>>

\* "Appended to memory block '"
AppendedPrefix ==
    <<65, 112, 112, 101, 110, 100, 101, 100, 32, 116, 111, 32, 109, 101,
      109, 111, 114, 121, 32, 98, 108, 111, 99, 107, 32, 39>>

\* "Added to archival memory"
AddedToArchival ==
    <<65, 100, 100, 101, 100, 32, 116, 111, 32, 97, 114, 99, 104, 105, 118,
      97, 108, 32, 109, 101, 109, 111, 114, 121>>

\* "default"
DefaultFolder == <<100, 101, 102, 97, 117, 108, 116>>

\* json!({"status": "success", "message": message})
WriteResult(message) ==
    JObj([status |-> JStr(StatusSuccess), message |-> JStr(message)])

\* A handler takes the arguments and the agent state st = [memory, messages,
\* archival_entries] and gives Ok([st, result]) or Err(error).

\* MemoryReplaceHandler::execute
MemoryReplaceHandler(args, st) ==
    LET label == get_str(args, "label")
        value == get_str(args, "value")
    IN IF ~label.some THEN Err(ToolExecution("Missing 'label' parameter"))
       ELSE IF ~value.some THEN Err(ToolExecution("Missing 'value' parameter"))
       ELSE LET r == Memory_set_block(st.memory, label.v, value.v)
            IN IF ~r.ok THEN r
               ELSE Ok([st |-> [st EXCEPT !.memory = r.v],
                        result |-> ToolResult_success(
                            WriteResult(UpdatedPrefix \o label.v \o <<39>>))])

\* MemoryAppendHandler::execute
MemoryAppendHandler(args, st) ==
    LET label == get_str(args, "label")
        text == get_str(args, "text")
    IN IF ~label.some THEN Err(ToolExecution("Missing 'label' parameter"))
       ELSE IF ~text.some THEN Err(ToolExecution("Missing 'text' parameter"))
       ELSE LET r == Memory_append_block(st.memory, label.v, text.v)
            IN IF ~r.ok THEN r
               ELSE Ok([st |-> [st EXCEPT !.memory = r.v],
                        result |-> ToolResult_success(
                            WriteResult(AppendedPrefix \o label.v \o <<39>>))])

\* json!({"folder": folder, "text": text, "timestamp": Utc::now()})
ArchivalEntry(folder, text) ==
    JObj([folder |-> JStr(folder), text |-> JStr(text), timestamp |-> TimestampJson])

\* ArchivalInsertHandler::execute
ArchivalInsertHandler(args, st) ==
    LET folder == unwrap_or(get_str(args, "folder"), DefaultFolder)
        text == get_str(args, "text")
    IN IF ~text.some THEN Err(ToolExecution("Missing 'text' parameter"))
       ELSE Ok([st |-> [st EXCEPT !.archival_entries =
                            Append(@, ArchivalEntry(folder, text.v))],
                result |-> ToolResult_success(WriteResult(AddedToArchival))])

\* the filter of archival search: the entry's "text" holds the query, ignoring case
EntryMatches(entry, query) ==
    LET t == get_str(entry, "text")
    IN t.some /\ contains(to_lowercase(t.v), to_lowercase(query))

\* archival search returning the newest matches: the last top_k of them
ArchivalMatchesNewest(entries, query, top_k) ==
    LET found == Filter(entries,
                        [i \in 1..Len(entries) |-> EntryMatches(entries[i], query)])
    IN SubSeq(found, Len(found) - Min(top_k, Len(found)) + 1, Len(found))

\* the entries archival search returns
ArchivalMatches(entries, query, top_k) ==
    take(Filter(entries, [i \in 1..Len(entries) |-> EntryMatches(entries[i], query)]),
         top_k)

\* json!({"results": results, "count": results.len()})
ReadResult(results) ==
    JObj([results |-> JArr(results), count |-> JNum(Len(results))])

\* ArchivalSearchHandler::execute
ArchivalSearchHandler(args, st) ==
    LET query == get_str(args, "query")
        top_k == unwrap_or(get_u64(args, "top_k"), 5)
    IN IF ~query.some THEN Err(ToolExecution("Missing 'query' parameter"))
       ELSE Ok([st |-> st,
                result |-> with_heartbeat(ToolResult_success(
                    ReadResult(ArchivalMatches(st.archival_entries, query.v, top_k))))])

\* ConversationSearchHandler::execute
ConversationSearchHandler(args, st) ==
    LET query == get_str(args, "query")
        top_k == unwrap_or(get_u64(args, "top_k"), 5)
    IN IF ~query.some THEN Err(ToolExecution("Missing 'query' parameter"))
       ELSE LET results == MessageBuffer_search(st.messages, query.v, top_k)
            IN Ok([st |-> st,
                   result |-> ToolResult_success(
                       ReadResult([i \in 1..Len(results) |-> MessageJson(results[i])]))])

\* ToolExecutor::new: the registered names
BuiltinTools ==
    {"memory_replace", "memory_append", "archival_insert", "archival_search",
     "conversation_search"}

\* the handler types of tool.rs, and one written by the host
BuiltinHandlers ==
    {"MemoryReplaceHandler", "MemoryAppendHandler", "ArchivalInsertHandler",
     "ArchivalSearchHandler", "ConversationSearchHandler"}
HostHandler == "HostHandler"

\* ToolExecutor::new: each built-in name with its handler
ToolExecutor_new ==
    [name \in BuiltinTools |->
        CASE name = "memory_replace" -> "MemoryReplaceHandler"
          [] name = "memory_append" -> "MemoryAppendHandler"
          [] name = "archival_insert" -> "ArchivalInsertHandler"
          [] name = "archival_search" -> "ArchivalSearchHandler"
          [] name = "conversation_search" -> "ConversationSearchHandler"]

\* ToolExecutor::register
ToolExecutor_register(tools, name, handler) ==
    [n \in DOMAIN tools \cup {name} |-> IF n = name THEN handler ELSE tools[n]]

\* impl Clone for ToolExecutor: a fresh map with the five built-in handlers
ToolExecutor_clone(tools) == ToolExecutor_new

\* ToolHandler::execute of a handler; the host's handler stands for any
\* implementation of the trait and here returns its arguments
ToolHandler_execute(handler, args, st) ==
    CASE handler = "MemoryReplaceHandler" -> MemoryReplaceHandler(args, st)
      [] handler = "MemoryAppendHandler" -> MemoryAppendHandler(args, st)
      [] handler = "ArchivalInsertHandler" -> ArchivalInsertHandler(args, st)
      [] handler = "ArchivalSearchHandler" -> ArchivalSearchHandler(args, st)
      [] handler = "ConversationSearchHandler" -> ConversationSearchHandler(args, st)
      [] handler = HostHandler -> Ok([st |-> st, result |-> ToolResult_success(args)])

\* ToolExecutor::execute with every name taken for registered: an unknown
\* tool succeeds with a null result
ToolExecutor_execute_lenient(tc, st) ==
    IF tc.name \notin DOMAIN tool_executor
    THEN Ok([st |-> st, result |-> ToolResult_success(JNull)])
    ELSE ToolHandler_execute(tool_executor[tc.name], tc.arguments, st)

\* ToolExecutor::execute of the agent's executor
ToolExecutor_execute(tc, st) ==
    IF tc.name \notin DOMAIN tool_executor
    THEN Err([kind |-> "ToolExecution", msg |-> "Unknown tool", name |-> tc.name])
    ELSE ToolHandler_execute(tool_executor[tc.name], tc.arguments, st)

---------------------------------------------------------------------------
(* agent.rs *)

\* "You are a helpful AI assistant with persistent memory."
DefaultSystemPrompt ==
    <<89, 111, 117, 32, 97, 114, 101, 32, 97, 32, 104, 101, 108, 112, 102,
      117, 108, 32, 65, 73, 32, 97, 115, 115, 105, 115, 116, 97, 110, 116,
      32, 119, 105, 116, 104, 32, 112, 101, 114, 115, 105, 115, 116, 101,
      110, 116, 32, 109, 101, 109, 111, 114, 121, 46>>

\* "Context summary: "
ContextSummaryPrefix ==
    <<67, 111, 110, 116, 101, 120, 116, 32, 115, 117, 109, 109, 97, 114,
      121, 58, 32>>

\* "I have no response to share."
NoResponseText ==
    <<73, 32, 104, 97, 118, 101, 32, 110, 111, 32, 114, 101, 115, 112, 111,
      110, 115, 101, 32, 116, 111, 32, 115, 104, 97, 114, 101, 46>>

\* const MAX_ITERATIONS in reply_only
MAX_ITERATIONS == 10

\* the cap test written with `>=`
IterationCapReached(n) == n >= MAX_ITERATIONS

\* the test `iterations > MAX_ITERATIONS` at the top of the loop
IterationCapExceeded(n) == n > MAX_ITERATIONS

\* \s* and [q]* of the regex: every scalar is whitespace, is a quote
AllWhitespace(cs) == \A i \in 1..Len(cs) : IsWhitespace(cs[i])
AllQuotes(cs) == \A i \in 1..Len(cs) : IsQuote(cs[i])

\* the regex of is_invalid_empty_message, alternative by alternative, on the
\* scalars of the trimmed message:
\*   ^$ | ^\s+$ | ^[q]+$ | ^[q]+\s*$ | ^\s*[q]+\s*$     with q = ["'\x{201c}\x{201d}]
\* (the pattern's \" is the quotation mark; no alternative lets whitespace
\* stand between two quotes)
EmptyRegexMatches(cs) ==
    LET n == Len(cs)
    IN \/ n = 0
       \/ (n >= 1 /\ AllWhitespace(cs))
       \/ (n >= 1 /\ AllQuotes(cs))
       \/ \E k \in 1..n :
            /\ AllQuotes(SubSeq(cs, 1, k))
            /\ AllWhitespace(SubSeq(cs, k + 1, n))
       \/ \E i \in 1..n : \E j \in i..n :
            /\ AllWhitespace(SubSeq(cs, 1, i - 1))
            /\ AllQuotes(SubSeq(cs, i, j))
            /\ AllWhitespace(SubSeq(cs, j + 1, n))

\* the classifier matching only the empty and the blank message
is_blank_message(msg) == trim(Chars(msg)) = <<>>

\* Agent::is_invalid_empty_message
is_invalid_empty_message(msg) == EmptyRegexMatches(trim(Chars(msg)))

\* the test of step without its `!is_empty_related` conjunct
is_not_blank(user_message) == trim(Chars(user_message)) # <<>>

\* the test `is_valid_content` of Agent::step
is_valid_content(user_message) ==
    /\ ~is_invalid_empty_message(user_message)
    /\ trim(Chars(user_message)) # <<>>

ResNone == [status |-> "none"]
ResOk(v) == [status |-> "ok", v |-> v]
ResErr(e) == [status |-> "err", err |-> e]

\* the part of AgentState that tool handlers borrow
State == [memory |-> memory, messages |-> messages,
          archival_entries |-> archival_entries]

RECURSIVE RunBatchExhaustive(_, _, _, _, _, _)
\* the batch loop going on to the calls after a failed one before it
\* returns the failure
RunBatchExhaustive(calls, st, max, trace, hb, out) ==
    IF calls = <<>>
    THEN [ok |-> TRUE, st |-> st, trace |-> trace, hb |-> hb, out |-> out]
    ELSE LET r == ToolExecutor_execute(calls[1], st)
         IN IF ~r.ok
            THEN LET rest == RunBatchExhaustive(Tail(calls), st, max, trace,
                                                hb, out)
                 IN [ok |-> FALSE, err |-> r.err, st |-> rest.st,
                     trace |-> rest.trace, hb |-> rest.hb, out |-> rest.out]
            ELSE LET tool_msg == Message_tool(calls[1].id,
                                              to_string(r.v.result.result))
                     st2 == [r.v.st EXCEPT
                               !.messages = MessageBuffer_push(@, max, tool_msg)]
                     entry == [tool |-> calls[1].name,
                               args |-> calls[1].arguments,
                               result |-> r.v.result.result]
                 IN RunBatchExhaustive(Tail(calls), st2, max,
                                       Append(trace, entry),
                                       hb \/ r.v.result.request_heartbeat,
                                       Append(out, tool_msg))

RECURSIVE RunBatchReversed(_, _, _, _, _, _)
\* the batch loop iterating over the calls from the last to the first
RunBatchReversed(calls, st, max, trace, hb, out) ==
    IF calls = <<>>
    THEN [ok |-> TRUE, st |-> st, trace |-> trace, hb |-> hb, out |-> out]
    ELSE LET tc == calls[Len(calls)]
             r == ToolExecutor_execute(tc, st)
         IN IF ~r.ok
            THEN [ok |-> FALSE, err |-> r.err, st |-> st, trace |-> trace,
                  hb |-> hb, out |-> out]
            ELSE LET tool_msg == Message_tool(tc.id, to_string(r.v.result.result))
                     st2 == [r.v.st EXCEPT
                               !.messages = MessageBuffer_push(@, max, tool_msg)]
                     entry == [tool |-> tc.name, args |-> tc.arguments,
                               result |-> r.v.result.result]
                 IN RunBatchReversed(SubSeq(calls, 1, Len(calls) - 1), st2, max,
                                     Append(trace, entry),
                                     hb \/ r.v.result.request_heartbeat,
                                     Append(out, tool_msg))

RECURSIVE RunBatch(_, _, _, _, _, _)
\* the loop `for tool_call in &completion.tool_calls` of reply_only: executes
\* the calls in order and stops at the first error (the `?` operators)
RunBatch(calls, st, max, trace, hb, out) ==
    IF calls = <<>>
    THEN [ok |-> TRUE, st |-> st, trace |-> trace, hb |-> hb, out |-> out]
    ELSE LET r == ToolExecutor_execute(calls[1], st)
         IN IF ~r.ok
            THEN [ok |-> FALSE, err |-> r.err, st |-> st, trace |-> trace,
                  hb |-> hb, out |-> out]
            ELSE LET tool_msg == Message_tool(calls[1].id,
                                              to_string(r.v.result.result))
                     st2 == [r.v.st EXCEPT
                               !.messages = MessageBuffer_push(@, max, tool_msg)]
                     entry == [tool |-> calls[1].name,
                               args |-> calls[1].arguments,
                               result |-> r.v.result.result]
                 IN RunBatch(Tail(calls), st2, max, Append(trace, entry),
                             hb \/ r.v.result.request_heartbeat,
                             Append(out, tool_msg))

\* the ToolCallInfo list of the assistant envelope
ToolCallInfos(calls) ==
    [i \in 1..Len(calls) |->
        [id |-> calls[i].id, name |-> calls[i].name,
         arguments |-> calls[i].arguments]]

\* the response text without the fallback for an empty completion
response_text_raw(completion) == completion.text

\* the final response text of reply_only
response_text(completion) ==
    IF completion.text # <<>> THEN completion.text ELSE NoResponseText

\* the `continue` test reading only the tool results' heartbeat
ContinueOnBatchOnly(batch_heartbeat, completion) == batch_heartbeat

\* whether reply_only takes the `continue` after a batch of tool calls
ContinueAfterBatch(batch_heartbeat, completion) ==
    batch_heartbeat \/ completion.request_heartbeat

\* a host call starts: the bookkeeping of the call
EnterCall(name, input) ==
    /\ pc = "idle"
    /\ ops' = ops + 1
    /\ call' = [name |-> name, input |-> input, len_before |-> Len(messages)]
    /\ iterations' = 0
    /\ tool_trace' = <<>>
    /\ provider_calls' = 0
    /\ last_iter' = None
    /\ UNCHANGED <<request, now>>

\* a call of one of Agent's methods
StartCall(name, input) == EnterCall(name, input) /\ UNCHANGED af

\* a host call within the bound on host calls
BeginCall(name, input) == ops < MaxOps /\ StartCall(name, input)

\* self.state.updated_at = Utc::now()
Touch == info' = [info EXCEPT !.updated_at = now]

\* Agent::send_only
SendOnly(user_message) ==
    /\ BeginCall("send_only", Some(user_message))
    /\ IF is_invalid_empty_message(user_message)
       THEN /\ messages' = messages
            /\ iter_pushed' = <<>>
            /\ info' = info
       ELSE /\ messages' = MessageBuffer_push(messages, max_size,
                                              Message_user(user_message))
            /\ iter_pushed' = <<Message_user(user_message)>>
            /\ Touch
    /\ pushed' = iter_pushed'
    /\ result' = ResOk(TRUE)
    /\ pc' = "idle"
    /\ UNCHANGED <<binding, config, provider, db, runs, sync, tool_executor, memory, max_size, archival_entries, current_tokens>>

\* Agent::step up to its call of reply_only
StepBody(user_message) ==
    /\ IF is_valid_content(user_message)
       THEN /\ messages' = MessageBuffer_push(messages, max_size,
                                              Message_user(user_message))
            /\ iter_pushed' = <<Message_user(user_message)>>
            /\ Touch
       ELSE /\ messages' = messages
            /\ iter_pushed' = <<>>
            /\ info' = info
    /\ pushed' = iter_pushed'
    /\ result' = ResNone
    /\ pc' = "loop"
    /\ UNCHANGED <<binding, config, provider, db, runs, sync, tool_executor, memory, max_size, archival_entries, current_tokens>>

Step(user_message) ==
    BeginCall("step", Some(user_message)) /\ StepBody(user_message)

\* Agent::reply_only up to its loop
ReplyOnly ==
    /\ BeginCall("reply_only", None)
    /\ iter_pushed' = <<>>
    /\ pushed' = <<>>
    /\ result' = ResNone
    /\ pc' = "loop"
    /\ UNCHANGED <<binding, config, provider, db, runs, sync, tool_executor, memory, messages, max_size, archival_entries,
                   current_tokens, info>>

\* reply_only, one loop iteration from its top to the provider call: the
\* iteration cap, build_prompt, the summary message
LoopHead ==
    /\ pc = "loop"
    /\ iterations' = iterations + 1
    /\ IF IterationCapExceeded(iterations')
       THEN /\ result' = ResErr(ToolExecution("Maximum iterations exceeded"))
            /\ pc' = "idle"
            /\ iter_pushed' = <<>>
            /\ UNCHANGED <<messages, current_tokens, pushed, request>>
       ELSE LET bp == build_prompt(config.system_prompt, memory, messages,
                                   config.max_messages, config.max_context_tokens)
            IN /\ current_tokens' = bp.current_tokens
               /\ request' = IF bp.outcome.ok THEN Some(bp.outcome.v) ELSE None
               /\ IF ~bp.outcome.ok
                  THEN /\ result' = ResErr(bp.outcome.err)
                       /\ pc' = "idle"
                       /\ iter_pushed' = <<>>
                       /\ UNCHANGED <<messages, pushed>>
                  ELSE IF should_summarize(current_tokens', config.max_context_tokens)
                  THEN LET summary == summarize_messages(messages, 10)
                       IN IF ~summary.ok
                          THEN /\ result' = ResErr(summary.err)
                               /\ pc' = "panicked"
                               /\ iter_pushed' = <<>>
                               /\ UNCHANGED <<messages, pushed>>
                          ELSE LET m == Message_system(ContextSummaryPrefix \o summary.v)
                               IN /\ messages' = MessageBuffer_push(messages, max_size, m)
                                  /\ iter_pushed' = <<m>>
                                  /\ pushed' = Append(pushed, m)
                                  /\ result' = result
                                  /\ pc' = "await"
                  ELSE /\ iter_pushed' = <<>>
                       /\ result' = result
                       /\ pc' = "await"
                       /\ UNCHANGED <<messages, pushed>>
    /\ last_iter' = None
    /\ UNCHANGED <<binding, config, provider, db, runs, sync, tool_executor, memory, max_size, archival_entries, call, tool_trace,
                   provider_calls, ops, info, now, af>>

\* provider.complete(request) fails: the `?` returns the error
ProviderFails ==
    /\ pc = "await"
    /\ provider_calls' = provider_calls + 1
    /\ result' = ResErr([kind |-> "Provider", msg |-> "provider failed"])
    /\ pc' = "idle"
    /\ last_iter' = None
    /\ UNCHANGED <<binding, config, provider, db, runs, sync, tool_executor, memory, messages, max_size, archival_entries,
                   current_tokens, call, iterations, tool_trace, pushed,
                   iter_pushed, ops, info, now, af>>
    /\ request' = None

\* reply_only, from the provider's completion to the end of the iteration
ProviderCompletes(completion) ==
    /\ pc = "await"
    /\ provider_calls' = provider_calls + 1
    /\ LET b == RunBatch(completion.tool_calls, State, max_size, tool_trace,
                         FALSE, iter_pushed)
           envelope == with_tool_calls(Message_assistant(<<>>),
                                       ToolCallInfos(completion.tool_calls))
           \* the messages after the batch and its envelope
           after_batch == IF completion.tool_calls # <<>>
                          THEN MessageBuffer_push(b.st.messages, max_size, envelope)
                          ELSE b.st.messages
           out_batch == IF completion.tool_calls # <<>>
                        THEN Append(b.out, envelope)
                        ELSE b.out
           final == Message_assistant(response_text(completion))
       IN /\ memory' = b.st.memory
          /\ archival_entries' = b.st.archival_entries
          /\ tool_trace' = b.trace
          /\ last_iter' = Some([completion |-> completion, ok |-> b.ok,
                                request_heartbeat |-> b.hb])
          /\ IF ~b.ok
             THEN /\ messages' = b.st.messages
                  /\ iter_pushed' = b.out
                  /\ result' = ResErr(b.err)
                  /\ pc' = IF b.err.kind = "panic" THEN "panicked" ELSE "idle"
                  /\ info' = info
             ELSE IF completion.tool_calls # <<>>
                     /\ ContinueAfterBatch(b.hb, completion)
             THEN /\ messages' = after_batch
                  /\ iter_pushed' = out_batch
                  /\ result' = result
                  /\ pc' = "loop"
                  /\ info' = info
             ELSE /\ messages' = MessageBuffer_push(after_batch, max_size, final)
                  /\ iter_pushed' = Append(out_batch, final)
                  /\ result' = ResOk([text |-> response_text(completion),
                                      tool_trace |-> b.trace,
                                      usage |-> completion.usage])
                  /\ pc' = "idle"
                  /\ Touch
    /\ pushed' = pushed \o SubSeq(iter_pushed', Len(iter_pushed) + 1,
                                  Len(iter_pushed'))
    /\ request' = None
    /\ UNCHANGED <<binding, config, provider, db, runs, sync, tool_executor, max_size, current_tokens, call, iterations, ops, now, af>>

\* Agent::set_memory_block
SetMemoryBlock(label, value) ==
    /\ BeginCall("set_memory_block", Some(<<label, value>>))
    /\ LET r == Memory_set_block(memory, label, value)
       IN IF r.ok
          THEN memory' = r.v /\ result' = ResOk(TRUE) /\ Touch
          ELSE memory' = memory /\ result' = ResErr(r.err) /\ info' = info
    /\ iter_pushed' = <<>>
    /\ pushed' = <<>>
    /\ pc' = "idle"
    /\ UNCHANGED <<binding, config, provider, db, runs, sync, tool_executor, messages, max_size, archival_entries, current_tokens>>

\* Agent::add_archival
AddArchival(folder, text) ==
    /\ BeginCall("add_archival", Some(<<folder, text>>))
    /\ Len(archival_entries) < MaxArchival
    /\ archival_entries' = Append(archival_entries, ArchivalEntry(folder, text))
    /\ Touch
    /\ result' = ResOk(TRUE)
    /\ iter_pushed' = <<>>
    /\ pushed' = <<>>
    /\ pc' = "idle"
    /\ UNCHANGED <<binding, config, provider, db, runs, sync, tool_executor, memory, messages, max_size, current_tokens>>

\* Agent::clear_messages
ClearMessages ==
    /\ BeginCall("clear_messages", None)
    /\ messages' = <<>>
    /\ Touch
    /\ result' = ResOk(TRUE)
    /\ iter_pushed' = <<>>
    /\ pushed' = <<>>
    /\ pc' = "idle"
    /\ UNCHANGED <<binding, config, provider, db, runs, sync, tool_executor, memory, max_size, archival_entries, current_tokens>>

---------------------------------------------------------------------------
(* storage: migrations.rs, db.rs.  The database file is shared by every    *)
(* connection; each SQL statement is a transaction of its own.  The text   *)
(* of migration 001_initial is not part of the sources: its effect is      *)
(* taken from the specification (the tables of the store exist after it),  *)
(* and `executed` counts how often it was run.                             *)

\* const MIGRATIONS: the names
MIGRATIONS == <<"001_initial">>

\* host threads that may call letta_init_storage
MaxThreads == 2
Threads == 1..MaxThreads

\* a database file before any connection: no tables
NewDatabase ==
    [migrations |-> [exists |-> FALSE, names |-> {}],
     executed |-> [i \in DOMAIN MIGRATIONS |-> 0],
     blocks |-> {}]

\* a thread that has not called Storage::new
NoRun == [pc |-> "closed", applied |-> {}, i |-> 1, opens |-> 0]

DatabaseError(msg) == [kind |-> "Database", msg |-> msg]

\* words of SQLite's grammar that are no identifiers unless quoted (a part
\* of the list)
ReservedWords == {"select", "from", "where", "group", "order", "limit", "table"}

\* Connection::prepare of a statement naming these columns unquoted
Prepares(columns) == \A i \in DOMAIN columns : columns[i] \notin ReservedWords

\* the column list of upsert_block's INSERT and of get_blocks' SELECT
BlockColumns ==
    <<"id", "agent_id", "label", "description", "value", "limit", "updated_at">>

\* INSERT INTO blocks ... ON CONFLICT(agent_id, label) DO UPDATE SET value,
\* description, limit, updated_at, on the table of the specification
\* (id primary key, (agent_id, label) unique)
UpsertRow(rows, block) ==
    LET same == {r \in rows : r.agent_id = block.agent_id /\ r.label = block.label}
    IN IF same # {}
       THEN Ok({IF r \in same
                THEN [r EXCEPT !.value = block.value,
                               !.description = block.description,
                               !.limit = block.limit,
                               !.updated_at = block.updated_at]
                ELSE r : r \in rows})
       ELSE IF \E r \in rows : r.id = block.id
       THEN Err(DatabaseError("UNIQUE constraint failed"))
       ELSE Ok(rows \cup {block})

\* Storage::upsert_block: the database after the call and what it returns
Storage_upsert_block(d, block) ==
    IF ~Prepares(BlockColumns)
    THEN [db |-> d, result |-> Err(DatabaseError("syntax error"))]
    ELSE LET r == UpsertRow(d.blocks, block)
         IN IF r.ok THEN [db |-> [d EXCEPT !.blocks = r.v], result |-> Ok(TRUE)]
            ELSE [db |-> d, result |-> r]

\* Storage::get_blocks: the rows of the agent, in no particular order
Storage_get_blocks(d, agent_id) ==
    IF ~Prepares(BlockColumns)
    THEN Err(DatabaseError("syntax error"))
    ELSE Ok({r \in d.blocks : r.agent_id = agent_id})

---------------------------------------------------------------------------
(* sync: sync/src/lib.rs *)

\* Map::insert for every member of `from`, in `into`
InsertAll(into, from) ==
    [k \in DOMAIN into \cup DOMAIN from |->
        IF k \in DOMAIN from THEN from[k] ELSE into[k]]

\* resolve_conflict with the members of the cloud side inserted into a
\* clone of the local side
SyncClient_resolve_conflict_cloud_first(cfg, conflict) ==
    [conflict |-> conflict,
     value |->
        IF cfg.conflict_resolution = "cloud-wins" THEN conflict.cloud_value
        ELSE IF cfg.conflict_resolution = "merge"
                /\ conflict.local_value.t = "obj" /\ conflict.cloud_value.t = "obj"
        THEN JObj(InsertAll(conflict.local_value.o, conflict.cloud_value.o))
        ELSE conflict.local_value]

\* SyncClient::resolve_conflict(&self, &ConflictInfo): the conflict after
\* the call (it is borrowed immutably and only cloned) and the value returned
SyncClient_resolve_conflict(cfg, conflict) ==
    [conflict |-> conflict,
     value |->
        IF cfg.conflict_resolution = "last-write-wins" THEN conflict.local_value
        ELSE IF cfg.conflict_resolution = "cloud-wins" THEN conflict.cloud_value
        ELSE IF cfg.conflict_resolution = "merge"
        THEN IF conflict.local_value.t = "obj" /\ conflict.cloud_value.t = "obj"
             THEN JObj(InsertAll(conflict.cloud_value.o, conflict.local_value.o))
             ELSE conflict.local_value
        ELSE conflict.local_value]

---------------------------------------------------------------------------
(* Inputs of the model *)

\* "hi" and "ok"
Hi == <<104, 105>>
OkText == <<111, 107>>

\* the provider's TokenUsage is copied to the result and read nowhere
NoUsage == [prompt_tokens |-> 0, completion_tokens |-> 0, total_tokens |-> 0]

\* the tool calls a completion may carry
ToolCalls ==
    { [id |-> "call_1", name |-> "archival_search",
       arguments |-> JObj([query |-> JStr(Hi)])],
      [id |-> "call_2", name |-> "memory_replace",
       arguments |-> JObj([label |-> JStr(Human), value |-> JStr(Hi)])],
      [id |-> "call_2", name |-> "archival_insert",
       arguments |-> JObj([text |-> JStr(Hi)])],
      [id |-> "call_1", name |-> "no_such_tool", arguments |-> JObj(<<>>)] }

\* the sequences of at most n elements of S
SeqsUpTo(S, n) == UNION {[1..k -> S] : k \in 0..n}

\* the completions the provider may return
Completions ==
    [text : {<<>>, OkText},
     tool_calls : SeqsUpTo(ToolCalls, MaxBatch),
     request_heartbeat : BOOLEAN,
     usage : {NoUsage}]

\* the completions of the iterations after the first VaryIters: a heartbeat
\* search that continues the loop, and a text that ends it
NarrowCompletions ==
    { [text |-> <<>>,
       tool_calls |-> <<[id |-> "call_1", name |-> "archival_search",
                         arguments |-> JObj([query |-> JStr(Hi)])]>>,
       request_heartbeat |-> TRUE, usage |-> NoUsage],
      [text |-> OkText, tool_calls |-> <<>>, request_heartbeat |-> FALSE,
       usage |-> NoUsage] }

\* the number of archival_insert calls in a completion
Inserts(completion) ==
    Cardinality({i \in 1..Len(completion.tool_calls) :
                    completion.tool_calls[i].name = "archival_insert"})

\* the model's buffer capacity (AgentState::new sets 100)
MaxBuffer == 3

\* max_context_tokens of the configurations: one small enough for the
\* summarization and overflow branches to be taken, and the default
ContextSizes == {50, 8192}

StepInputs == {<<>>, Hi}

\* the configurations: AgentConfig::default() but for max_context_tokens
Configs ==
    [system_prompt : {DefaultSystemPrompt},
     max_messages : {100},
     max_context_tokens : ContextSizes,
     tools_enabled : {TRUE}]

\* "assistant", AgentConfig::default()'s name
AssistantName == <<97, 115, 115, 105, 115, 116, 97, 110, 116>>

\* AgentState::new's id (a fresh UUID), name, timestamps (Utc::now(), here the
\* clock's initial reading) and metadata (json!({}))
AgentInfo ==
    [id |-> UuidJson.s, name |-> AssistantName, created_at |-> 0,
     updated_at |-> 0, metadata |-> JObj(<<>>)]

\* a provider of which only the LlmProvider trait is known: complete() may
\* fail or return any completion
AnyProvider == [kind |-> "any"]

\* Agent::new (AgentState::new, ContextManager::new) with one of the given
\* configurations and providers and a buffer of the given capacity holding
\* one of `buffers`, an archive holding one of `archives`, ops0 host calls
\* already made
InitFrom(configs, providers, buffers, capacity, archives, ops0) ==
    /\ config \in configs
    /\ provider \in providers
    /\ tool_executor = ToolExecutor_new
    /\ memory = Memory_new_chat
    /\ messages \in buffers
    /\ max_size = capacity
    /\ archival_entries \in archives
    /\ current_tokens = 0
    /\ pc = "idle"
    /\ call = [name |-> "new", input |-> None, len_before |-> 0]
    /\ iterations = 0
    /\ tool_trace = <<>>
    /\ result = ResNone
    /\ provider_calls = 0
    /\ pushed = <<>>
    /\ iter_pushed = <<>>
    /\ last_iter = None
    /\ ops = ops0
    /\ request = None
    /\ info = AgentInfo
    /\ now = 0
    /\ af = None
    /\ db = NewDatabase
    /\ runs = [t \in Threads |-> NoRun]
    /\ sync = [client |-> None, conflict |-> None]
    /\ AGENTS = [owner |-> None, poisoned |-> FALSE, v |-> <<>>]
    /\ STORAGE = [owner |-> None, poisoned |-> FALSE, v |-> None]
    /\ SYNC_CLIENT = [owner |-> None, poisoned |-> FALSE, v |-> None]
    /\ handles = <<>>
    /\ host_calls = [t \in Threads |->
                  [fn |-> "none", pc |-> "idle", handle |-> None, valid |-> TRUE,
                   freed |-> FALSE, ret |-> "none", reached |-> None, made |-> 0]]

\* Agent::new: the archive starts empty
InitWith(configs, providers, buffers, capacity, ops0) ==
    InitFrom(configs, providers, buffers, capacity, {<<>>}, ops0)

\* an agent with a buffer of capacity MaxBuffer and any provider
InitAgent(buffers, ops0) ==
    InitWith(Configs, {AnyProvider}, buffers, MaxBuffer, ops0)

Init == InitAgent({<<>>}, 0)

\* the provider returns a completion within the model's bounds
ProviderReturns(completions) ==
    \E c \in completions :
        /\ Len(archival_entries) + Inserts(c) <= MaxArchival
        /\ ProviderCompletes(c)

Next ==
    \/ \E t \in StepInputs : Step(t)
    \/ \E t \in StepInputs : SendOnly(t)
    \/ ReplyOnly
    \/ LoopHead
    \/ ProviderFails
    \/ ProviderReturns(IF iterations <= VaryIters THEN Completions
                       ELSE NarrowCompletions)
    \/ SetMemoryBlock(Human, Hi)
    \/ AddArchival(DefaultFolder, Hi)
    \/ ClearMessages

Spec == Init /\ [][Next]_vars


---------------------------------------------------------------------------
(* The input filter: step and send_only on every short input over the     *)
(* scalars the filter tells apart, with a provider that answers with text *)

\* scalars in one input
MaxInputLen == 3

\* SPACE, QUOTATION MARK, U+201C, FULL STOP, the letter a
FilterAlphabet == {<<32>>, <<34>>, <<226, 128, 156>>, <<46>>, <<97>>}

\* the inputs over the alphabet, and: "\u3002", "\u300c\u300d", "'", "\u201d",
\* TAB "\u3002"
FilterInputs ==
    {Flatten(cs) : cs \in SeqsUpTo(FilterAlphabet, MaxInputLen)}
    \cup { <<227, 128, 130>>,
           <<227, 128, 140, 227, 128, 141>>,
           <<39>>,
           <<226, 128, 157>>,
           <<9, 227, 128, 130>> }

\* completions without tool calls
TextCompletions ==
    [text : {<<>>, OkText}, tool_calls : {<<>>}, request_heartbeat : BOOLEAN,
     usage : {NoUsage}]

\* an agent with one host call left, its buffer empty or holding a reply
FilterInit == InitAgent({<<>>, <<Message_assistant(OkText)>>}, MaxOps - 1)

FilterNext ==
    \/ \E t \in FilterInputs : Step(t)
    \/ \E t \in FilterInputs : SendOnly(t)
    \/ LoopHead
    \/ ProviderReturns(TextCompletions)

FilterSpec == FilterInit /\ [][FilterNext]_vars

---------------------------------------------------------------------------
(* The memory blocks: the setter and the two memory tools on values around *)
(* the default limit                                                       *)

\* the label "test"
TestLabel == <<116, 101, 115, 116>>

\* "hi", "x" * 1000, "x" * 3000
MemValues == {Hi, repeat(120, 1000), repeat(120, 3000)}

MemLabels == {Human, TestLabel}

\* memory_replace and memory_append calls on the labels and values
MemCalls ==
    { [id |-> "call_1", name |-> "memory_replace",
       arguments |-> JObj([label |-> JStr(l), value |-> JStr(v)])] :
         l \in MemLabels, v \in MemValues }
    \cup
    { [id |-> "call_2", name |-> "memory_append",
       arguments |-> JObj([label |-> JStr(l), text |-> JStr(v)])] :
         l \in MemLabels, v \in MemValues }

MemCompletions ==
    [text : {OkText}, tool_calls : SeqsUpTo(MemCalls, MaxBatch),
     request_heartbeat : {FALSE}, usage : {NoUsage}]

MemNext ==
    \/ \E l \in MemLabels : \E v \in MemValues : SetMemoryBlock(l, v)
    \/ Step(Hi)
    \/ LoopHead
    \/ ProviderReturns(MemCompletions)

MemSpec == Init /\ [][MemNext]_vars

---------------------------------------------------------------------------
(* provider.rs: the toy provider, and the agent run against it as the      *)
(* integration tests run it                                                *)

\* Completion::text
Completion_text(content) ==
    [text |-> content, tool_calls |-> <<>>, request_heartbeat |-> FALSE,
     usage |-> [prompt_tokens |-> 0, completion_tokens |-> Len(content) \div 4,
                total_tokens |-> Len(content) \div 4]]

\* "#DO_SEARCH", "#MEMORY_UPDATE", "Tool ["
DoSearchTag == <<35, 68, 79, 95, 83, 69, 65, 82, 67, 72>>
MemoryUpdateTag == <<35, 77, 69, 77, 79, 82, 89, 95, 85, 80, 68, 65, 84, 69>>
ToolTag == <<84, 111, 111, 108, 32, 91>>

\* "latest readings"
LatestReadings ==
    <<108, 97, 116, 101, 115, 116, 32, 114, 101, 97, 100, 105, 110, 103, 115>>

\* "Updated user information"
UpdatedUserInformation ==
    <<85, 112, 100, 97, 116, 101, 100, 32, 117, 115, 101, 114, 32, 105, 110,
      102, 111, 114, 109, 97, 116, 105, 111, 110>>

\* "Based on the search results,"
BasedOnTheSearchResults ==
    <<66, 97, 115, 101, 100, 32, 111, 110, 32, 116, 104, 101, 32, 115, 101,
      97, 114, 99, 104, 32, 114, 101, 115, 117, 108, 116, 115, 44>>

\* "Based on the search results, here's a summary of the latest readings: The
\* most recent values show stable patterns with readings at 168 mg/dL and 112
\* mg/dL."
AfterToolText ==
    BasedOnTheSearchResults \o
    <<32, 104, 101, 114, 101, 39, 115, 32, 97, 32, 115, 117, 109, 109, 97,
      114, 121, 32, 111, 102, 32, 116, 104, 101, 32, 108, 97, 116, 101, 115,
      116, 32, 114, 101, 97, 100, 105, 110, 103, 115, 58, 32, 84, 104, 101,
      32, 109, 111, 115, 116, 32, 114, 101, 99, 101, 110, 116, 32, 118, 97,
      108, 117, 101, 115, 32, 115, 104, 111, 119, 32, 115, 116, 97, 98, 108,
      101, 32, 112, 97, 116, 116, 101, 114, 110, 115, 32, 119, 105, 116, 104,
      32, 114, 101, 97, 100, 105, 110, 103, 115, 32, 97, 116, 32, 49, 54, 56,
      32, 109, 103, 47, 100, 76, 32, 97, 110, 100, 32, 49, 49, 50, 32, 109,
      103, 47, 100, 76, 46>>

\* "I understand your request. How can I help you further?"
DeterministicText ==
    <<73, 32, 117, 110, 100, 101, 114, 115, 116, 97, 110, 100, 32, 121, 111,
      117, 114, 32, 114, 101, 113, 117, 101, 115, 116, 46, 32, 72, 111, 119,
      32, 99, 97, 110, 32, 73, 32, 104, 101, 108, 112, 32, 121, 111, 117, 32,
      102, 117, 114, 116, 104, 101, 114, 63>>

\* "This is a test response from the toy provider."
TestResponseText ==
    <<84, 104, 105, 115, 32, 105, 115, 32, 97, 32, 116, 101, 115, 116, 32,
      114, 101, 115, 112, 111, 110, 115, 101, 32, 102, 114, 111, 109, 32, 116,
      104, 101, 32, 116, 111, 121, 32, 112, 114, 111, 118, 105, 100, 101, 114,
      46>>

\* the TokenUsage of the toy provider's tool-calling completions
ToyUsage(prompt) ==
    [prompt_tokens |-> Len(prompt) \div 4, completion_tokens |-> 10,
     total_tokens |-> Len(prompt) \div 4 + 10]

\* <ToyProvider as LlmProvider>::complete
ToyProvider_complete(prompt, deterministic) ==
    IF contains(prompt, DoSearchTag)
    THEN [text |-> <<>>,
          tool_calls |-> <<[id |-> "call_1", name |-> "archival_search",
                            arguments |-> JObj([query |-> JStr(LatestReadings),
                                                top_k |-> JNum(3)])]>>,
          request_heartbeat |-> TRUE, usage |-> ToyUsage(prompt)]
    ELSE IF contains(prompt, MemoryUpdateTag)
    THEN [text |-> <<>>,
          tool_calls |-> <<[id |-> "call_2", name |-> "memory_replace",
                            arguments |-> JObj([label |-> JStr(Human),
                                                value |-> JStr(UpdatedUserInformation)])]>>,
          request_heartbeat |-> FALSE, usage |-> ToyUsage(prompt)]
    ELSE IF contains(prompt, ToolTag)
    THEN Completion_text(AfterToolText)
    ELSE Completion_text(IF deterministic THEN DeterministicText
                         ELSE TestResponseText)

\* the toy provider answers the request in flight
ToyCompletes ==
    /\ provider.kind = "toy"
    /\ pc = "await"
    /\ \E prompt \in request.v :
           ProviderCompletes(ToyProvider_complete(prompt, provider.deterministic))

\* steps in one behaviour of the agent run against the toy provider
MaxToySteps == 21

\* the capacity AgentState::new gives the message buffer
BufferCapacity == 100

\* the messages test_context_overflow sends before its final one
TestMessages == 20

\* "Search for latest readings #DO_SEARCH" (test_tool_execution)
SearchInput ==
    <<83, 101, 97, 114, 99, 104, 32, 102, 111, 114, 32, 108, 97, 116, 101,
      115, 116, 32, 114, 101, 97, 100, 105, 110, 103, 115, 32>> \o DoSearchTag

\* "Please remember this #MEMORY_UPDATE"
UpdateInput ==
    <<80, 108, 101, 97, 115, 101, 32, 114, 101, 109, 101, 109, 98, 101, 114,
      32, 116, 104, 105, 115, 32>> \o MemoryUpdateTag

\* format!("Message {}", i), and "Final message" after the TestMessages-th
TestInput(i) ==
    IF i < TestMessages
    THEN <<77, 101, 115, 115, 97, 103, 101, 32>> \o Digits(i)
    ELSE <<70, 105, 110, 97, 108, 32, 109, 101, 115, 115, 97, 103, 101>>

\* the inputs of the k-th step (from 0): the tests' message sequence, and as
\* a first input also the two that trigger the toy provider's tool calls
ToyInputs(k) ==
    {TestInput(k)} \cup (IF k = 0 THEN {SearchInput, UpdateInput} ELSE {})

\* AgentConfig::default() with max_context_tokens 100 (test_context_overflow)
\* or left at the default
ToyConfigs ==
    [system_prompt : {DefaultSystemPrompt},
     max_messages : {100},
     max_context_tokens : {100, 8192},
     tools_enabled : {TRUE}]

\* ProviderConfig::Toy(ToyConfig { deterministic })
ToyProviders == [kind : {"toy"}, deterministic : BOOLEAN]

ToyInit == InitWith(ToyConfigs, ToyProviders, {<<>>}, BufferCapacity, 0)

\* agent.step(input) of the tests
ToyStep ==
    /\ ops < MaxToySteps
    /\ \E t \in ToyInputs(ops) : StartCall("step", Some(t)) /\ StepBody(t)

ToyNext ==
    \/ ToyStep
    \/ LoopHead
    \/ ToyCompletes

ToySpec == ToyInit /\ [][ToyNext]_vars

---------------------------------------------------------------------------
(* The context window: steps of an agent whose max_context_tokens lies     *)
(* just above the estimate of its initial prompt                           *)

\* how far max_context_tokens lies above the estimate of the initial prompt
MaxSlack == 20

\* inputs and replies of one and of two estimated tokens
PromptInputs == {repeat(97, 4), repeat(97, 8)}
PromptCompletions == {Completion_text(repeat(98, 4))}

\* AgentConfig::default() but for max_context_tokens
PromptConfigs ==
    [system_prompt : {DefaultSystemPrompt},
     max_messages : {100},
     max_context_tokens :
         {PromptTokens(DefaultSystemPrompt, Memory_new_chat, <<>>, 100) + d :
          d \in 0..MaxSlack},
     tools_enabled : {TRUE}]

PromptInit == InitWith(PromptConfigs, {AnyProvider}, {<<>>}, MaxBuffer, 0)

PromptNext ==
    \/ \E t \in PromptInputs : Step(t)
    \/ LoopHead
    \/ ProviderReturns(PromptCompletions)

PromptSpec == PromptInit /\ [][PromptNext]_vars

---------------------------------------------------------------------------
(* Serialization of the agent state (the serde derives of memory.rs,       *)
(* message.rs and agent.rs).  A JSON text is represented by the value it   *)
(* denotes, and a text that is no JSON by NotJson; what the derived code   *)
(* does with a value (fields left out, null for None, defaults, required   *)
(* fields) is what is modelled.  The model's memories are chat memories.   *)

\* a text serde_json cannot parse
NotJson == [t |-> "invalid"]

Serialization == [kind |-> "Serialization"]

\* "1970-01-01T00:00:"
EpochPrefix ==
    <<49, 57, 55, 48, 45, 48, 49, 45, 48, 49, 84, 48, 48, 58, 48, 48, 58>>

\* chrono's serialization of a DateTime<Utc> t seconds after the epoch
\* (t < 60): "1970-01-01T00:00:SSZ"
TimestampText(t) == EpochPrefix \o <<48 + (t \div 10), 48 + (t % 10), 90>>

IsDigit(b) == b >= 48 /\ b <= 57

\* chrono's parsing of such a text
ParseTimestamp(s) ==
    IF /\ Len(s) = 20
       /\ SubSeq(s, 1, 17) = EpochPrefix
       /\ IsDigit(s[18]) /\ s[18] <= 53
       /\ IsDigit(s[19])
       /\ s[20] = 90
    THEN Ok(10 * (s[18] - 48) + (s[19] - 48))
    ELSE Err(Serialization)

\* v is an object with all of the given fields
HasFields(v, fields) == v.t = "obj" /\ fields \subseteq DOMAIN v.o

\* v is an object whose field k is a string / a number / an array
IsStrField(v, k) == HasFields(v, {k}) /\ v.o[k].t = "str"
IsNumField(v, k) == HasFields(v, {k}) /\ v.o[k].t = "num"
IsArrField(v, k) == HasFields(v, {k}) /\ v.o[k].t = "arr"

\* v is an object whose field k is a timestamp
IsTimeField(v, k) == IsStrField(v, k) /\ ParseTimestamp(v.o[k].s).ok

\* the identifier whose bytes are s (the inverse of Utf8)
Identifiers ==
    {"system", "user", "assistant", "tool", "memory_replace", "memory_append",
     "archival_insert", "archival_search", "conversation_search", "call_1",
     "call_2", "no_such_tool"}
IsIdentifier(s) == \E x \in Identifiers : Utf8(x) = s
Identifier(s) == CHOOSE x \in Identifiers : Utf8(x) = s

\* derive(Serialize) for MemoryBlock
MemoryBlock_to_value(block) ==
    JObj([label |-> JStr(block.label), description |-> JStr(block.description),
          value |-> JStr(block.value), limit |-> JNum(block.limit)])

\* derive(Deserialize) for MemoryBlock accepts v (limit has a default)
IsMemoryBlock(v) ==
    /\ IsStrField(v, "label")
    /\ IsStrField(v, "description")
    /\ IsStrField(v, "value")
    /\ "limit" \in DOMAIN v.o => v.o["limit"].t = "num"

\* derive(Deserialize) for MemoryBlock
MemoryBlock_from_value(v) ==
    [label |-> v.o["label"].s, description |-> v.o["description"].s,
     value |-> v.o["value"].s,
     limit |-> IF "limit" \in DOMAIN v.o THEN v.o["limit"].n ELSE default_limit]

\* derive(Serialize) for Memory: the flattened, internally tagged MemoryType
Memory_to_value(mem) ==
    JObj([type |-> JStr(<<99, 104, 97, 116>>),
          blocks |-> JObj([l \in DOMAIN mem |-> MemoryBlock_to_value(mem[l])])])

\* derive(Deserialize) for Memory accepts v
IsMemory(v) ==
    /\ IsStrField(v, "type")
    /\ v.o["type"].s = <<99, 104, 97, 116>>
    /\ HasFields(v, {"blocks"})
    /\ v.o["blocks"].t = "obj"
    /\ \A l \in DOMAIN v.o["blocks"].o : IsMemoryBlock(v.o["blocks"].o[l])

\* derive(Deserialize) for Memory
Memory_from_value(v) ==
    [l \in DOMAIN v.o["blocks"].o |-> MemoryBlock_from_value(v.o["blocks"].o[l])]

\* derive(Deserialize) for ToolCallInfo accepts v
IsToolCallInfo(v) ==
    /\ IsStrField(v, "id") /\ IsIdentifier(v.o["id"].s)
    /\ IsStrField(v, "name") /\ IsIdentifier(v.o["name"].s)
    /\ HasFields(v, {"arguments"})

\* derive(Deserialize) for ToolCallInfo
ToolCallInfo_from_value(v) ==
    [id |-> Identifier(v.o["id"].s), name |-> Identifier(v.o["name"].s),
     arguments |-> v.o["arguments"]]

\* v has no field k, or a null there (an Option that becomes None)
IsAbsent(v, k) == k \notin DOMAIN v.o \/ v.o[k].t = "null"

\* derive(Deserialize) for Message accepts v
IsMessage(v) ==
    /\ IsStrField(v, "id")
    /\ IsStrField(v, "role")
    /\ v.o["role"].s \in {Utf8(r) : r \in {"system", "user", "assistant", "tool"}}
    /\ IsStrField(v, "content")
    /\ IsTimeField(v, "timestamp")
    /\ \/ IsAbsent(v, "tool_calls")
       \/ /\ v.o["tool_calls"].t = "arr"
          /\ \A i \in DOMAIN v.o["tool_calls"].a :
                 IsToolCallInfo(v.o["tool_calls"].a[i])
    /\ \/ IsAbsent(v, "tool_call_id")
       \/ v.o["tool_call_id"].t = "str" /\ IsIdentifier(v.o["tool_call_id"].s)
    /\ "metadata" \in DOMAIN v.o => v.o["metadata"].t = "obj"

\* derive(Deserialize) for Message (ids and timestamps of messages are not
\* part of the model's messages)
Message_from_value(v) ==
    [role |-> Identifier(v.o["role"].s),
     content |-> v.o["content"].s,
     tool_calls |->
         IF IsAbsent(v, "tool_calls") THEN None
         ELSE Some([i \in DOMAIN v.o["tool_calls"].a |->
                       ToolCallInfo_from_value(v.o["tool_calls"].a[i])]),
     tool_call_id |->
         IF IsAbsent(v, "tool_call_id") THEN None
         ELSE Some(Identifier(v.o["tool_call_id"].s))]

\* a Vec<Message> as a value, and back
Messages_to_value(msgs) == JArr([i \in DOMAIN msgs |-> MessageJson(msgs[i])])
IsMessages(v) == v.t = "arr" /\ \A i \in DOMAIN v.a : IsMessage(v.a[i])
Messages_from_value(v) == [i \in DOMAIN v.a |-> Message_from_value(v.a[i])]

\* self.state: the whole AgentState
AgentState ==
    [info |-> info, memory |-> memory, messages |-> messages,
     max_size |-> max_size, archival_entries |-> archival_entries]

\* derive(Serialize) for AgentState
AgentState_to_value(st) ==
    JObj([id |-> JStr(st.info.id),
          name |-> JStr(st.info.name),
          created_at |-> JStr(TimestampText(st.info.created_at)),
          updated_at |-> JStr(TimestampText(st.info.updated_at)),
          memory |-> Memory_to_value(st.memory),
          messages |-> JObj([messages |-> Messages_to_value(st.messages),
                             max_size |-> JNum(st.max_size)]),
          archival_entries |-> JArr(st.archival_entries),
          metadata |-> st.info.metadata])

\* derive(Deserialize) for AgentState accepts v
IsAgentState(v) ==
    /\ IsStrField(v, "id")
    /\ IsStrField(v, "name")
    /\ IsTimeField(v, "created_at")
    /\ IsTimeField(v, "updated_at")
    /\ HasFields(v, {"memory", "messages", "archival_entries", "metadata"})
    /\ IsMemory(v.o["memory"])
    /\ HasFields(v.o["messages"], {"messages"})
    /\ IsMessages(v.o["messages"].o["messages"])
    /\ IsNumField(v.o["messages"], "max_size")
    /\ v.o["archival_entries"].t = "arr"

\* derive(Deserialize) for AgentState
AgentState_from_value(v) ==
    [info |-> [id |-> v.o["id"].s,
               name |-> v.o["name"].s,
               created_at |-> ParseTimestamp(v.o["created_at"].s).v,
               updated_at |-> ParseTimestamp(v.o["updated_at"].s).v,
               metadata |-> v.o["metadata"]],
     memory |-> Memory_from_value(v.o["memory"]),
     messages |-> Messages_from_value(v.o["messages"].o["messages"]),
     max_size |-> v.o["messages"].o["max_size"].n,
     archival_entries |-> v.o["archival_entries"].a]

\* serde_json::from_str::<AgentState>
AgentState_from_str(json) ==
    IF json # NotJson /\ IsAgentState(json)
    THEN Ok(AgentState_from_value(json))
    ELSE Err(Serialization)

\* import_state replacing the state by a fresh one before it parses
import_state_resetting(st, json) ==
    LET parsed == AgentState_from_str(json)
    IN IF parsed.ok THEN [state |-> parsed.v, result |-> Ok(TRUE)]
       ELSE [state |-> [st EXCEPT !.messages = <<>>, !.archival_entries = <<>>,
                                  !.memory = Memory_new_chat],
             result |-> parsed]

\* Agent::import_state: the agent's state after the call, and what it returns
import_state(st, json) ==
    LET parsed == AgentState_from_str(json)
    IN IF parsed.ok THEN [state |-> parsed.v, result |-> Ok(TRUE)]
       ELSE [state |-> st, result |-> parsed]

---------------------------------------------------------------------------
(* af.rs: the agent file.  AgentConfig's name, model and temperature, the  *)
(* schemas of the exported tools and the kinds of export this crate never  *)
(* writes (groups, files, sources, MCP servers, tool rules) are left out   *)
(* of the model's documents but for the fields a document must have.       *)

\* "block_", "0.1.0", "letta-lite", "ChatMemory", "toy"
BlockIdPrefix == <<98, 108, 111, 99, 107, 95>>
AfVersion == <<48, 46, 49, 46, 48>>
ExportSource == <<108, 101, 116, 116, 97, 45, 108, 105, 116, 101>>
ChatMemoryClass == <<67, 104, 97, 116, 77, 101, 109, 111, 114, 121>>
ToyModel == <<116, 111, 121>>

\* crate::VERSION: the package version the crate was built with, a text the
\* sources do not fix
CrateVersion == <<48, 46, 49, 46, 48>>

\* block ids that leave the label out
block_id_unlabelled(label) == BlockIdPrefix

\* format!("block_{}", label)
block_id(label) == BlockIdPrefix \o label

\* the BlockExport of block `label`
BlockExport(mem, label) ==
    [id |-> block_id(label), label |-> label,
     description |-> mem[label].description, value |-> mem[label].value,
     limit |-> mem[label].limit]

\* AgentFile::export, with the blocks map iterated in the given order, the
\* names of the given tool schemas and the clock reading `time`
AgentFile_export(cfg, st, tool_schemas, order, time) ==
    [version |-> AfVersion,
     agents |->
        <<[id |-> st.info.id,
           name |-> st.info.name,
           system_prompt |-> cfg.system_prompt,
           message_buffer_size |-> cfg.max_messages,
           agent_state |->
              [user_id |-> None,
               created_at |-> st.info.created_at,
               updated_at |-> st.info.updated_at,
               tools |-> tool_schemas,
               memory |-> [memory_class |-> ChatMemoryClass,
                           blocks |-> [i \in DOMAIN order |-> block_id(order[i])],
                           template |-> None],
               metadata |-> Some(st.info.metadata)],
           messages |-> st.messages,
           model |-> [model_endpoint |-> ToyModel,
                      context_window |-> cfg.max_context_tokens]]>>,
     blocks |-> [i \in DOMAIN order |-> BlockExport(st.memory, order[i])],
     tools |-> Some(tool_schemas),
     metadata |-> [letta_version |-> CrateVersion, export_time |-> time,
                   export_source |-> ExportSource]]

\* the members of an object: the required ones and the optional ones that
\* are Some (skip_serializing_if = "Option::is_none")
Members(required, optional) ==
    LET present == {k \in DOMAIN optional : optional[k].some}
    IN JObj([k \in DOMAIN required \cup present |->
               IF k \in DOMAIN required THEN required[k] ELSE optional[k].v])

\* an Option without skip_serializing_if: null for None
Nullable(opt) == IF opt.some THEN opt.v ELSE JNull

\* a Vec<String> of identifiers / of texts as a value
Names_to_value(names) == JArr([i \in DOMAIN names |-> JStr(Utf8(names[i]))])
Texts_to_value(texts) == JArr([i \in DOMAIN texts |-> JStr(texts[i])])

\* derive(Serialize) for AgentExport
AgentExport_to_value(a) ==
    JObj([id |-> JStr(a.id),
          name |-> JStr(a.name),
          system_prompt |-> JStr(a.system_prompt),
          message_buffer_size |-> JNum(a.message_buffer_size),
          agent_state |->
             Members([user_id |-> Nullable(a.agent_state.user_id),
                      created_at |-> JStr(TimestampText(a.agent_state.created_at)),
                      updated_at |-> JStr(TimestampText(a.agent_state.updated_at)),
                      tools |-> Names_to_value(a.agent_state.tools),
                      memory |->
                         Members([memory_class |->
                                      JStr(a.agent_state.memory.memory_class),
                                  blocks |->
                                      Texts_to_value(a.agent_state.memory.blocks)],
                                 [template |-> a.agent_state.memory.template])],
                     [metadata |-> a.agent_state.metadata]),
          messages |-> Messages_to_value(a.messages),
          model |-> JObj([model_endpoint |-> JStr(a.model.model_endpoint),
                          context_window |-> JNum(a.model.context_window)])])

\* derive(Serialize) for BlockExport
BlockExport_to_value(b) ==
    JObj([id |-> JStr(b.id), label |-> JStr(b.label),
          description |-> JStr(b.description), value |-> JStr(b.value),
          limit |-> JNum(b.limit)])

\* derive(Serialize) for AgentFileV1; a ToolExport is written with its name
AgentFile_to_value(af_doc) ==
    Members([version |-> JStr(af_doc.version),
             agents |-> JArr([i \in DOMAIN af_doc.agents |->
                                AgentExport_to_value(af_doc.agents[i])]),
             blocks |-> JArr([i \in DOMAIN af_doc.blocks |->
                                BlockExport_to_value(af_doc.blocks[i])]),
             metadata |->
                JObj([letta_version |-> JStr(af_doc.metadata.letta_version),
                      export_time |->
                          JStr(TimestampText(af_doc.metadata.export_time)),
                      export_source |-> JStr(af_doc.metadata.export_source)])],
            [tools |-> IF af_doc.tools.some
                       THEN Some(Names_to_value(af_doc.tools.v)) ELSE None])

\* AgentFile::to_json
to_json(af_doc) == AgentFile_to_value(af_doc)

\* v is an array of strings / of identifiers
IsTexts(v) == v.t = "arr" /\ \A i \in DOMAIN v.a : v.a[i].t = "str"
IsNames(v) == IsTexts(v) /\ \A i \in DOMAIN v.a : IsIdentifier(v.a[i].s)

\* derive(Deserialize) for BlockExport accepts v (limit is required here)
IsBlockExport(v) ==
    /\ IsStrField(v, "id")
    /\ IsStrField(v, "label")
    /\ IsStrField(v, "description")
    /\ IsStrField(v, "value")
    /\ IsNumField(v, "limit")

\* derive(Deserialize) for BlockExport
BlockExport_from_value(v) ==
    [id |-> v.o["id"].s, label |-> v.o["label"].s,
     description |-> v.o["description"].s, value |-> v.o["value"].s,
     limit |-> v.o["limit"].n]

\* derive(Deserialize) for AgentExport accepts v
IsAgentExport(v) ==
    /\ IsStrField(v, "id")
    /\ IsStrField(v, "name")
    /\ IsStrField(v, "system_prompt")
    /\ IsNumField(v, "message_buffer_size")
    /\ HasFields(v, {"agent_state", "messages", "model"})
    /\ LET s == v.o["agent_state"]
       IN /\ IsTimeField(s, "created_at")
          /\ IsTimeField(s, "updated_at")
          /\ IsAbsent(s, "user_id") \/ s.o["user_id"].t = "str"
          /\ HasFields(s, {"tools", "memory"})
          /\ IsNames(s.o["tools"])
          /\ IsStrField(s.o["memory"], "memory_class")
          /\ HasFields(s.o["memory"], {"blocks"})
          /\ IsTexts(s.o["memory"].o["blocks"])
          /\ IsAbsent(s.o["memory"], "template")
             \/ s.o["memory"].o["template"].t = "str"
    /\ IsMessages(v.o["messages"])
    /\ IsStrField(v.o["model"], "model_endpoint")
    /\ IsNumField(v.o["model"], "context_window")

\* an Option field: None when the member is absent or null
OptionField(v, k) == IF IsAbsent(v, k) THEN None ELSE Some(v.o[k])
OptionText(v, k) == IF IsAbsent(v, k) THEN None ELSE Some(v.o[k].s)

\* derive(Deserialize) for AgentExport
AgentExport_from_value(v) ==
    LET s == v.o["agent_state"]
    IN [id |-> v.o["id"].s,
        name |-> v.o["name"].s,
        system_prompt |-> v.o["system_prompt"].s,
        message_buffer_size |-> v.o["message_buffer_size"].n,
        agent_state |->
           [user_id |-> OptionText(s, "user_id"),
            created_at |-> ParseTimestamp(s.o["created_at"].s).v,
            updated_at |-> ParseTimestamp(s.o["updated_at"].s).v,
            tools |-> [i \in DOMAIN s.o["tools"].a |->
                          Identifier(s.o["tools"].a[i].s)],
            memory |->
               [memory_class |-> s.o["memory"].o["memory_class"].s,
                blocks |-> [i \in DOMAIN s.o["memory"].o["blocks"].a |->
                               s.o["memory"].o["blocks"].a[i].s],
                template |-> OptionText(s.o["memory"], "template")],
            metadata |-> OptionField(s, "metadata")],
        messages |-> Messages_from_value(v.o["messages"]),
        model |-> [model_endpoint |-> v.o["model"].o["model_endpoint"].s,
                   context_window |-> v.o["model"].o["context_window"].n]]

\* derive(Deserialize) for AgentFileV1 accepts v
IsAgentFile(v) ==
    /\ IsStrField(v, "version")
    /\ IsArrField(v, "agents")
    /\ \A i \in DOMAIN v.o["agents"].a : IsAgentExport(v.o["agents"].a[i])
    /\ IsArrField(v, "blocks")
    /\ \A i \in DOMAIN v.o["blocks"].a : IsBlockExport(v.o["blocks"].a[i])
    /\ IsAbsent(v, "tools") \/ IsNames(v.o["tools"])
    /\ HasFields(v, {"metadata"})
    /\ IsStrField(v.o["metadata"], "letta_version")
    /\ IsTimeField(v.o["metadata"], "export_time")
    /\ IsStrField(v.o["metadata"], "export_source")

\* derive(Deserialize) for AgentFileV1
AgentFile_from_value(v) ==
    [version |-> v.o["version"].s,
     agents |-> [i \in DOMAIN v.o["agents"].a |->
                    AgentExport_from_value(v.o["agents"].a[i])],
     blocks |-> [i \in DOMAIN v.o["blocks"].a |->
                    BlockExport_from_value(v.o["blocks"].a[i])],
     tools |-> IF IsAbsent(v, "tools") THEN None
               ELSE Some([i \in DOMAIN v.o["tools"].a |->
                             Identifier(v.o["tools"].a[i].s)]),
     metadata |->
        [letta_version |-> v.o["metadata"].o["letta_version"].s,
         export_time |-> ParseTimestamp(v.o["metadata"].o["export_time"].s).v,
         export_source |-> v.o["metadata"].o["export_source"].s]]

\* AgentFile::from_json
from_json(json) ==
    IF json # NotJson /\ IsAgentFile(json)
    THEN Ok(AgentFile_from_value(json))
    ELSE Err(Serialization)

\* HashMap::insert
Insert(map, key, value) ==
    [k \in DOMAIN map \cup {key} |-> IF k = key THEN value ELSE map[k]]

RECURSIVE ImportBlocks(_, _, _)
\* AgentFile::import's loop over the block ids: each id that a record of
\* blocks carries inserts the first such record under its label
ImportBlocks(block_ids, blocks, mem) ==
    IF block_ids = <<>> THEN mem
    ELSE LET found == {i \in DOMAIN blocks : blocks[i].id = block_ids[1]}
         IN IF found = {} THEN ImportBlocks(Tail(block_ids), blocks, mem)
            ELSE LET b == blocks[CHOOSE i \in found : \A j \in found : i <= j]
                 IN ImportBlocks(Tail(block_ids), blocks,
                                 Insert(mem, b.label,
                                        [label |-> b.label,
                                         description |-> b.description,
                                         value |-> b.value,
                                         limit |-> b.limit]))

RECURSIVE PushAll(_, _, _)
\* state.messages.push(msg.clone()) for each of msgs
\* (the first half of msgs is pushed, and evaluated, before the second)
PushAll(msgs, buffer, max) ==
    IF msgs = <<>> THEN buffer
    ELSE IF Len(msgs) = 1 THEN MessageBuffer_push(buffer, max, msgs[1])
    ELSE LET h == Len(msgs) \div 2
             first == PushAll(SubSeq(msgs, 1, h), buffer, max)
         IN IF Len(first) <= max
            THEN PushAll(SubSeq(msgs, h + 1, Len(msgs)), first, max)
            ELSE first

InvalidConfig(msg) == [kind |-> "InvalidConfig", msg |-> msg]

\* AgentFile::import: the configuration and the state of the first agent
AgentFile_import(af_doc) ==
    IF af_doc.agents = <<>> THEN Err(InvalidConfig("No agents in AF file"))
    ELSE LET agent_export == af_doc.agents[1]
         IN Ok([config |->
                   [system_prompt |-> agent_export.system_prompt,
                    max_messages |-> agent_export.message_buffer_size,
                    max_context_tokens |-> agent_export.model.context_window,
                    tools_enabled |-> agent_export.agent_state.tools # <<>>],
                state |->
                   [info |->
                       [id |-> agent_export.id,
                        name |-> agent_export.name,
                        created_at |-> agent_export.agent_state.created_at,
                        updated_at |-> agent_export.agent_state.updated_at,
                        metadata |->
                            IF agent_export.agent_state.metadata.some
                            THEN agent_export.agent_state.metadata.v
                            ELSE JObj(<<>>)],
                    memory |-> ImportBlocks(agent_export.agent_state.memory.blocks,
                                            af_doc.blocks, Memory_new_chat),
                    messages |-> PushAll(agent_export.messages, <<>>,
                                         BufferCapacity),
                    max_size |-> BufferCapacity,
                    archival_entries |-> <<>>,
                    \* AgentState::new's Memory::new_chat(): memory_class is
                    \* not read
                    memory_type |-> "chat"]])

\* letta_load_af: the agent's state after the call, and the outcome of the
\* step that ended it
letta_load_af(st, af_json) ==
    LET af_result == from_json(af_json)
        import_result == IF af_result.ok THEN AgentFile_import(af_result.v)
                         ELSE af_result
    IN IF ~import_result.ok THEN [state |-> st, result |-> import_result]
       ELSE import_state(st, AgentState_to_value(import_result.v.state))

\* self.state = state
SetState(st) ==
    /\ info' = st.info
    /\ memory' = st.memory
    /\ messages' = st.messages
    /\ max_size' = st.max_size
    /\ archival_entries' = st.archival_entries

\* host calls in one behaviour of the agent-file model
MaxAfOps == 3
\* the last reading of the clock
MaxTime == 1

\* time passes
Tick ==
    /\ pc = "idle"
    /\ now < MaxTime
    /\ now' = now + 1
    /\ UNCHANGED <<binding, config, provider, db, runs, sync, tool_executor, memory, messages, max_size,
                   archival_entries, current_tokens, pc, call, iterations,
                   tool_trace, result, provider_calls, pushed, iter_pushed,
                   last_iter, ops, request, info, af>>

\* the bookkeeping of a host call that is no loop
Returns(res) ==
    /\ result' = res
    /\ pc' = "idle"
    /\ iter_pushed' = <<>>
    /\ pushed' = <<>>

\* letta_export_af: AgentFile::export of the agent with no tool schemas
ExportAf ==
    /\ ops < MaxAfOps
    /\ EnterCall("export_af", None)
    /\ \E order \in IterationOrders(DOMAIN memory) :
           af' = Some(AgentFile_export(config, AgentState, <<>>, order, now))
    /\ Returns(ResOk(TRUE))
    /\ UNCHANGED <<binding, config, provider, db, runs, sync, tool_executor, memory, messages, max_size,
                   archival_entries, current_tokens, info>>

\* letta_load_af(handle, af_json): 0 on success, -1 on failure (the model
\* keeps the error that made it fail)
LoadAf(af_json) ==
    /\ ops < MaxAfOps
    /\ StartCall("load_af", Some(af_json))
    /\ LET r == letta_load_af(AgentState, af_json)
       IN /\ SetState(r.state)
          /\ Returns(IF r.result.ok THEN ResOk(0) ELSE ResErr(r.result.err))
    /\ UNCHANGED <<binding, config, provider, db, runs, sync, tool_executor, current_tokens>>

\* Agent::import_state(json)
ImportState(json) ==
    /\ ops < MaxAfOps
    /\ StartCall("import_state", Some(json))
    /\ LET r == import_state(AgentState, json)
       IN /\ SetState(r.state)
          /\ Returns(IF r.result.ok THEN ResOk(TRUE) ELSE ResErr(r.result.err))
    /\ UNCHANGED <<binding, config, provider, db, runs, sync, tool_executor, current_tokens>>

\* a state saved by an agent whose buffer held more messages than
\* AgentState::new's capacity
LargeState ==
    [info |-> AgentInfo,
     memory |-> Memory_new_chat,
     messages |-> [i \in 1..(BufferCapacity + 1) |-> Message_user(Digits(i))],
     max_size |-> BufferCapacity + 1,
     archival_entries |-> <<ArchivalEntry(DefaultFolder, Hi)>>]

\* a state saved with a null for metadata
NullMetadataState ==
    [info |-> [AgentInfo EXCEPT !.metadata = JNull],
     memory |-> Memory_new_chat,
     messages |-> <<Message_user(Hi)>>,
     max_size |-> BufferCapacity,
     archival_entries |-> <<>>]

\* the texts given to import_state: no JSON, an object without the fields,
\* a state without its buffer's max_size, and two saved states
ImportInputs ==
    {NotJson,
     AgentState_to_value(NullMetadataState),
     JObj(<<>>),
     JObj([k \in DOMAIN AgentState_to_value(LargeState).o |->
             IF k = "messages" THEN JObj([messages |-> JArr(<<>>)])
             ELSE AgentState_to_value(LargeState).o[k]]),
     AgentState_to_value(LargeState)}

\* an agent file without agents
NoAgentsFile ==
    [AgentFile_export([system_prompt |-> DefaultSystemPrompt,
                       max_messages |-> 100, max_context_tokens |-> 8192,
                       tools_enabled |-> TRUE],
                      LargeState, <<>>, <<>>, 0)
     EXCEPT !.agents = <<>>]

\* the texts given to letta_load_af: no JSON, a JSON that is no agent file,
\* an agent file without agents, and the file last exported
LoadInputs ==
    {NotJson, JObj(<<>>), to_json(NoAgentsFile)}
    \cup (IF af.some THEN {to_json(af.v)} ELSE {})

AfNext ==
    \/ Step(Hi)
    \/ LoopHead
    \/ ProviderReturns(TextCompletions)
    \/ SetMemoryBlock(TestLabel, Hi)
    \/ AddArchival(DefaultFolder, Hi)
    \/ Tick
    \/ ExportAf
    \/ \E json \in LoadInputs : LoadAf(json)
    \/ \E json \in ImportInputs : ImportState(json)

AfSpec == Init /\ [][AfNext]_vars

---------------------------------------------------------------------------
(* tool.rs: an executor applied to the agent state, with registrations,    *)
(* clones and calls whose arguments are missing or of another JSON type    *)

\* "notes"
Notes == <<110, 111, 116, 101, 115>>

\* the arguments each built-in tool's schema declares, all present and valid
CompleteArguments(name) ==
    CASE name = "memory_replace" -> [label |-> JStr(Human), value |-> JStr(Hi)]
      [] name = "memory_append" -> [label |-> JStr(Human), text |-> JStr(Hi)]
      [] name = "archival_insert" -> [folder |-> JStr(Notes), text |-> JStr(Hi)]
      [] name = "archival_search" -> [query |-> JStr(Hi), top_k |-> JNum(1)]
      [] name = "conversation_search" -> [query |-> JStr(Hi), top_k |-> JNum(1)]

\* the `required` list of each built-in tool's schema, in the order in which
\* the handler reads the arguments
RequiredArguments(name) ==
    CASE name = "memory_replace" -> <<"label", "value">>
      [] name = "memory_append" -> <<"label", "text">>
      [] name = "archival_insert" -> <<"text">>
      [] name = "archival_search" -> <<"query">>
      [] name = "conversation_search" -> <<"query">>

\* what becomes of one argument: kept, left out, null, or a number
Fates == {"keep", "drop", "null", "num"}

\* the objects got from o by giving each of its members one of the Fates
ArgumentVariants(o) ==
    { [k \in {x \in DOMAIN o : fate[x] # "drop"} |->
          CASE fate[k] = "keep" -> o[k]
            [] fate[k] = "null" -> JNull
            [] fate[k] = "num" -> JNum(7)] : fate \in [DOMAIN o -> Fates] }

\* the calls of the built-in tools with every variant of their arguments, and
\* with arguments that are no object
BuiltinCalls ==
    UNION { { [id |-> "call_1", name |-> name, arguments |-> JObj(o)] :
                o \in ArgumentVariants(CompleteArguments(name)) }
            \cup { [id |-> "call_1", name |-> name, arguments |-> JNull] } :
            name \in BuiltinTools }

\* names the host may register a handler under
HostTools == {"host_tool", "memory_replace"}

\* calls of names that ToolExecutor::new does not register
OtherCalls ==
    { [id |-> "call_1", name |-> name, arguments |-> JObj(<<>>)] :
        name \in {"host_tool", "no_such_tool"} }

\* operations on the executor in one behaviour
MaxToolOps == 3
\* the stored messages and archival entries that match the searches' query
MaxMatches == 6

\* a buffer and an archive with more matches than the searches' default top_k
MatchingMessages == [i \in 1..MaxMatches |-> Message_user(Hi)]
MatchingEntries == [i \in 1..MaxMatches |-> ArchivalEntry(DefaultFolder, Hi)]

ToolInit ==
    InitFrom(ToyConfigs, {AnyProvider}, {<<>>, MatchingMessages}, BufferCapacity,
             {<<>>, MatchingEntries}, 0)

\* ToolExecutor::register of a handler of the host under the given name
RegisterTool(name) ==
    /\ ops < MaxToolOps
    /\ StartCall("register", Some(name))
    /\ tool_executor' = ToolExecutor_register(tool_executor, name, HostHandler)
    /\ Returns(ResOk(TRUE))
    /\ UNCHANGED <<binding, config, provider, db, runs, sync, memory, messages, max_size, archival_entries,
                   current_tokens, info>>

\* ToolExecutor::clone, the clone taking the executor's place
CloneExecutor ==
    /\ ops < MaxToolOps
    /\ StartCall("clone", None)
    /\ tool_executor' = ToolExecutor_clone(tool_executor)
    /\ Returns(ResOk(TRUE))
    /\ UNCHANGED <<binding, config, provider, db, runs, sync, memory, messages, max_size, archival_entries,
                   current_tokens, info>>

\* ToolExecutor::execute of one call on the agent state
ExecuteTool(tc) ==
    /\ ops < MaxToolOps
    /\ StartCall("execute", Some(tc))
    /\ LET r == ToolExecutor_execute(tc, State)
       IN IF r.ok
          THEN /\ memory' = r.v.st.memory
               /\ messages' = r.v.st.messages
               /\ archival_entries' = r.v.st.archival_entries
               /\ Returns(ResOk(r.v.result))
          ELSE /\ UNCHANGED <<memory, messages, archival_entries>>
               /\ IF r.err.kind = "panic"
                  THEN /\ result' = ResErr(r.err)
                       /\ pc' = "panicked"
                       /\ iter_pushed' = <<>>
                       /\ pushed' = <<>>
                  ELSE Returns(ResErr(r.err))
    /\ UNCHANGED <<binding, config, provider, db, runs, sync, tool_executor, max_size, current_tokens, info>>

ToolNext ==
    \/ \E name \in HostTools : RegisterTool(name)
    \/ CloneExecutor
    \/ \E tc \in BuiltinCalls \cup OtherCalls : ExecuteTool(tc)

ToolSpec == ToolInit /\ [][ToolNext]_vars

---------------------------------------------------------------------------
(* tool.rs: the searches over an archive whose entries differ in case,     *)
(* folder and type of text                                                 *)

\* "Hi"
HiCapital == <<72, 105>>

\* entries as archival_insert writes them, and one whose text is no string
\* (the archive is restored from JSON by import_state)
SearchEntries ==
    { ArchivalEntry(DefaultFolder, HiCapital), ArchivalEntry(Notes, Hi),
      ArchivalEntry(DefaultFolder, OkText),
      JObj([folder |-> JStr(DefaultFolder), text |-> JNum(7),
            timestamp |-> TimestampJson]) }

\* entries in the archive at the start
MaxEntries == 2

\* the searches: queries in either case, the empty query, top_k absent and given
SearchCalls ==
    { [id |-> "call_1", name |-> "archival_search",
       arguments |-> JObj([query |-> JStr(q)])] : q \in {Hi, HiCapital, OkText, <<>>} }
    \cup
    { [id |-> "call_1", name |-> "archival_search",
       arguments |-> JObj([query |-> JStr(q), top_k |-> JNum(k)])] :
        q \in {Hi, HiCapital, <<>>}, k \in 0..2 }

\* one valid call of each built-in tool
ValidCalls ==
    { [id |-> "call_2", name |-> name, arguments |-> JObj(CompleteArguments(name))] :
        name \in BuiltinTools }

SearchInit ==
    InitFrom(ToyConfigs, {AnyProvider}, {<<>>, <<Message_user(Hi)>>}, BufferCapacity,
             SeqsUpTo(SearchEntries, MaxEntries), 0)

SearchNext == \E tc \in SearchCalls \cup ValidCalls : ExecuteTool(tc)

SearchSpec == SearchInit /\ [][SearchNext]_vars

---------------------------------------------------------------------------
(* memory.rs: appends to blocks filled up to their limit, with texts of    *)
(* one-byte and two-byte scalars                                           *)

\* U+00E9, two bytes
EAcute == <<195, 169>>

\* bytes a block's value lacks to be full
MaxRoom == 2

\* values that leave at most MaxRoom bytes of a new block's limit, starting
\* with a one-byte and with a two-byte scalar
AppendValues ==
    {Hi}
    \cup {repeat(120, default_limit - room) : room \in 0..MaxRoom}
    \cup {EAcute \o repeat(120, default_limit - 2 - room) : room \in 0..MaxRoom}

\* the appended texts
AppendTexts == {<<>>, <<97>>, EAcute, <<97>> \o EAcute}

\* memory_replace calls that fill the block "human", and memory_append calls
\* on it and on a label that has no block
AppendCalls ==
    { [id |-> "call_1", name |-> "memory_replace",
       arguments |-> JObj([label |-> JStr(Human), value |-> JStr(v)])] :
         v \in AppendValues }
    \cup
    { [id |-> "call_2", name |-> "memory_append",
       arguments |-> JObj([label |-> JStr(l), text |-> JStr(t)])] :
         l \in {Human, TestLabel}, t \in AppendTexts }

AppendInit ==
    InitFrom(ToyConfigs, {AnyProvider}, {<<>>}, BufferCapacity, {<<>>}, 0)

AppendNext == \E tc \in AppendCalls : ExecuteTool(tc)

AppendSpec == AppendInit /\ [][AppendNext]_vars

---------------------------------------------------------------------------
(* message.rs: pushes on buffers of every small capacity.  In this         *)
(* specification `pushed` accumulates over the behaviour: it holds every   *)
(* message pushed since MessageBuffer::new.                                *)

\* the largest capacity, and the pushes in one behaviour
MaxCapacity == 3
MaxPushes == 5

\* the pushed messages
PushInputs == {Message_user(Hi), Message_user(OkText), Message_assistant(OkText)}

\* MessageBuffer::new(max_size) for each capacity, zero included
BufferInit ==
    \E capacity \in 0..MaxCapacity :
        InitFrom(ToyConfigs, {AnyProvider}, {<<>>}, capacity, {<<>>}, 0)

\* MessageBuffer::push
PushMessage(message) ==
    /\ Len(pushed) < MaxPushes
    /\ StartCall("push", Some(message))
    /\ messages' = MessageBuffer_push(messages, max_size, message)
    /\ pushed' = Append(pushed, message)
    /\ iter_pushed' = <<message>>
    /\ result' = ResOk(TRUE)
    /\ pc' = "idle"
    /\ UNCHANGED <<binding, config, provider, db, runs, sync, tool_executor, memory, max_size, archival_entries,
                   current_tokens, info>>

BufferNext == \E message \in PushInputs : PushMessage(message)

BufferSpec == BufferInit /\ [][BufferNext]_vars

---------------------------------------------------------------------------
(* agent.rs, af.rs: agents configured with a small max_messages, run       *)
(* against the toy provider, exported and loaded again                     *)

\* AgentConfig with max_messages below, and at, the default
LimitConfigs ==
    [system_prompt : {DefaultSystemPrompt},
     max_messages : {1, 2, 100},
     max_context_tokens : {8192},
     tools_enabled : {TRUE}]

LimitInit == InitWith(LimitConfigs, ToyProviders, {<<>>}, BufferCapacity, 0)

\* letta_load_af of the file last exported, whose message_buffer_size is the
\* configured max_messages
LoadExported == af.some /\ LoadAf(to_json(af.v))

LimitNext ==
    \/ ToyStep
    \/ LoopHead
    \/ ToyCompletes
    \/ ExportAf
    \/ LoadExported

LimitSpec == LimitInit /\ [][LimitNext]_vars

---------------------------------------------------------------------------
(* agent.rs: the operations that write state, with the clock advancing     *)
(* between host calls                                                      *)

\* completions that replace a block, call a tool that does not exist, or both
TouchCompletions ==
    [text : {OkText},
     tool_calls : SeqsUpTo({tc \in ToolCalls : tc.name \in {"memory_replace",
                                                           "no_such_tool"}},
                           MaxBatch),
     request_heartbeat : BOOLEAN,
     usage : {NoUsage}]

TouchNext ==
    \/ Tick
    \/ Step(Hi)
    \/ SendOnly(Hi)
    \/ ReplyOnly
    \/ LoopHead
    \/ ProviderFails
    \/ ProviderReturns(IF iterations <= VaryIters THEN TouchCompletions
                       ELSE NarrowCompletions)
    \/ SetMemoryBlock(Human, Hi)
    \/ AddArchival(DefaultFolder, Hi)
    \/ ClearMessages

TouchSpec == Init /\ [][TouchNext]_vars

---------------------------------------------------------------------------
(* storage: host threads opening the store on one database file            *)
(* (letta_init_storage calls Storage::new before it takes the STORAGE      *)
(* lock), and block upserts through an open store                          *)

\* the variables the store does not touch
AgentVars ==
    <<config, provider, tool_executor, memory, messages, max_size, archival_entries,
      current_tokens, pc, call, iterations, tool_trace, result, provider_calls,
      pushed, iter_pushed, last_iter, ops, request, info, now, af, sync, binding>>

\* Storage::new calls per thread
MaxOpens == 2

\* letta_init_storage / Storage::new: the pool is built and a connection taken
OpenStorage(t) ==
    /\ runs[t].pc \in {"closed", "open", "failed"}
    /\ runs[t].opens < MaxOpens
    /\ runs' = [runs EXCEPT ![t] = [pc |-> "create", applied |-> {}, i |-> 1,
                                    opens |-> @.opens + 1]]
    /\ UNCHANGED <<AgentVars, db>>

\* run_migrations: CREATE TABLE IF NOT EXISTS migrations
CreateMigrationsTable(t) ==
    /\ runs[t].pc = "create"
    /\ db' = [db EXCEPT !.migrations.exists = TRUE]
    /\ runs' = [runs EXCEPT ![t].pc = "select"]
    /\ UNCHANGED AgentVars

\* run_migrations: SELECT name FROM migrations, collected into `applied`
SelectApplied(t) ==
    /\ runs[t].pc = "select"
    /\ runs' = [runs EXCEPT ![t].applied = db.migrations.names, ![t].pc = "loop"]
    /\ UNCHANGED <<AgentVars, db>>

\* run_migrations: the head of the loop over MIGRATIONS and, for a name that
\* `applied` lacks, execute_batch(sql).  A first execution creates the
\* tables; whether the text can be executed again is not known, so a later
\* execution succeeds or fails.
ApplyMigration(t) ==
    /\ runs[t].pc = "loop"
    /\ LET i == runs[t].i
       IN IF i > Len(MIGRATIONS)
          THEN /\ runs' = [runs EXCEPT ![t].pc = "open"]
               /\ db' = db
          ELSE IF MIGRATIONS[i] \in runs[t].applied
          THEN /\ runs' = [runs EXCEPT ![t].i = i + 1]
               /\ db' = db
          ELSE /\ db' = [db EXCEPT !.executed[i] = @ + 1]
               /\ \E ok \in (IF db.executed[i] = 0 THEN {TRUE} ELSE BOOLEAN) :
                      runs' = [runs EXCEPT ![t].pc = IF ok THEN "insert" ELSE "failed"]
    /\ UNCHANGED AgentVars

\* run_migrations: INSERT INTO migrations (name); name is the primary key
RecordMigration(t) ==
    /\ runs[t].pc = "insert"
    /\ LET name == MIGRATIONS[runs[t].i]
       IN IF name \in db.migrations.names
          THEN /\ runs' = [runs EXCEPT ![t].pc = "failed"]
               /\ db' = db
          ELSE /\ db' = [db EXCEPT !.migrations.names = @ \cup {name}]
               /\ runs' = [runs EXCEPT ![t].i = @ + 1, ![t].pc = "loop"]
    /\ UNCHANGED AgentVars

\* "a1", "a2", "b1", "b2"
AgentIds == {<<97, 49>>, <<97, 50>>}
RowIds == {<<98, 49>>, <<98, 50>>}

\* the blocks given to upsert_block
StoredBlocks ==
    [id : RowIds, agent_id : AgentIds, label : {Human}, description : {<<>>},
     value : {Hi, OkText}, limit : {default_limit}, updated_at : {0}]

\* calls on the store in one behaviour
MaxStoreOps == 2

\* some thread holds an open store
StoreOpen == \E t \in Threads : runs[t].pc = "open"

\* Storage::upsert_block; a block's id is a fresh UUID or the id of the row
\* it rewrites
UpsertBlock(block) ==
    /\ StoreOpen
    /\ \A r \in db.blocks :
          r.id = block.id => (r.agent_id = block.agent_id /\ r.label = block.label)
    /\ ops < MaxStoreOps
    /\ StartCall("upsert_block", Some(block))
    /\ LET r == Storage_upsert_block(db, block)
       IN /\ db' = r.db
          /\ Returns(IF r.result.ok THEN ResOk(TRUE) ELSE ResErr(r.result.err))
    /\ UNCHANGED <<binding, config, provider, tool_executor, memory, messages, max_size,
                   archival_entries, current_tokens, info, runs, sync>>

\* Storage::get_blocks
GetBlocks(agent_id) ==
    /\ StoreOpen
    /\ ops < MaxStoreOps
    /\ StartCall("get_blocks", Some(agent_id))
    /\ LET r == Storage_get_blocks(db, agent_id)
       IN Returns(IF r.ok THEN ResOk(r.v) ELSE ResErr(r.err))
    /\ UNCHANGED <<binding, config, provider, tool_executor, memory, messages, max_size,
                   archival_entries, current_tokens, info, db, runs, sync>>

StorageNext ==
    \/ \E t \in Threads :
          \/ OpenStorage(t)
          \/ CreateMigrationsTable(t)
          \/ SelectApplied(t)
          \/ ApplyMigration(t)
          \/ RecordMigration(t)
    \/ \E block \in StoredBlocks : UpsertBlock(block)
    \/ \E agent_id \in AgentIds : GetBlocks(agent_id)

StorageSpec == Init /\ [][StorageNext]_vars

---------------------------------------------------------------------------
(* sync: a host that configures a client, receives conflicts and resolves  *)
(* them                                                                    *)

\* the policies a SyncConfig may name; the last is none of the three known
Policies == {"last-write-wins", "cloud-wins", "merge", "manual"}

\* the keys a conflicting object may have
MemberKeys == {"a", "b"}

\* the JSON values of the two sides: objects over MemberKeys with numbers
\* 1 and 2, a number and null
ConflictValues ==
    {JObj(o) : o \in UNION {[keys -> {JNum(1), JNum(2)}] : keys \in SUBSET MemberKeys}}
    \cup {JNum(1), JNull}

\* resolve_conflict calls in one behaviour
MaxSyncOps == 2

\* SyncClient::new(config)
NewSyncClient(policy) ==
    /\ pc = "idle"
    /\ sync' = [sync EXCEPT !.client = Some([conflict_resolution |-> policy])]
    /\ UNCHANGED <<binding, config, provider, tool_executor, memory, messages, max_size,
                   archival_entries, current_tokens, pc, call, iterations, tool_trace,
                   result, provider_calls, pushed, iter_pushed, last_iter, ops,
                   request, info, now, af, db, runs>>

\* a ConflictInfo of a SyncResponse reaches the host
ReceiveConflict(local, cloud) ==
    /\ pc = "idle"
    /\ sync' = [sync EXCEPT !.conflict =
                   Some([field |-> TestLabel, local_value |-> local,
                         cloud_value |-> cloud, resolution |-> <<>>])]
    /\ UNCHANGED <<binding, config, provider, tool_executor, memory, messages, max_size,
                   archival_entries, current_tokens, pc, call, iterations, tool_trace,
                   result, provider_calls, pushed, iter_pushed, last_iter, ops,
                   request, info, now, af, db, runs>>

\* SyncClient::resolve_conflict on the conflict held
ResolveConflict ==
    /\ sync.client.some /\ sync.conflict.some
    /\ ops < MaxSyncOps
    /\ StartCall("resolve_conflict", None)
    /\ LET r == SyncClient_resolve_conflict(sync.client.v, sync.conflict.v)
       IN /\ sync' = [sync EXCEPT !.conflict = Some(r.conflict)]
          /\ Returns(ResOk(r.value))
    /\ UNCHANGED <<binding, config, provider, tool_executor, memory, messages, max_size,
                   archival_entries, current_tokens, info, db, runs>>

SyncNext ==
    \/ \E policy \in Policies : NewSyncClient(policy)
    \/ \E local, cloud \in ConflictValues : ReceiveConflict(local, cloud)
    \/ ResolveConflict

SyncSpec == Init /\ [][SyncNext]_vars

---------------------------------------------------------------------------
(* Summarization: calls on an agent whose buffer holds a conversation of   *)
(* ten short messages, preceded or not by one of more than 100 bytes, and  *)
(* whose max_context_tokens lies at the estimate of its prompt             *)

\* the messages summarize_messages leaves out of the summary (agent.rs:133)
KeepRecent == 10

\* user messages of 101 bytes: ASCII only, and with U+00E9 at bytes 99..100
LongMessages ==
    {Message_user(repeat(97, 101)),
     Message_user(repeat(97, 99) \o EAcute)}

\* ten messages: "hi" and "ok" in turn
RecentMessages ==
    [i \in 1..KeepRecent |->
        IF i % 2 = 1 THEN Message_user(Hi) ELSE Message_assistant(OkText)]

SummaryBuffers ==
    {<<>>, RecentMessages} \cup {<<m>> \o RecentMessages : m \in LongMessages}

\* the capacity of the buffer: one above the longest conversation
SummaryCapacity == KeepRecent + 2

\* AgentConfig::default() but for max_context_tokens: the estimate of the
\* prompt of some conversation, or the default
SummaryConfigs ==
    [system_prompt : {DefaultSystemPrompt},
     max_messages : {100},
     max_context_tokens :
         {PromptTokens(DefaultSystemPrompt, Memory_new_chat, b, 100) :
          b \in SummaryBuffers \ {<<>>}} \cup {8192},
     tools_enabled : {TRUE}]

SummaryInit ==
    InitWith(SummaryConfigs, {AnyProvider}, SummaryBuffers, SummaryCapacity, 0)

SummaryNext ==
    \/ Step(Hi)
    \/ ReplyOnly
    \/ LoopHead
    \/ ProviderFails
    \/ ProviderReturns(TextCompletions)

SummarySpec == SummaryInit /\ [][SummaryNext]_vars

---------------------------------------------------------------------------
(* context.rs: prompts of agents whose max_messages is below, at and above *)
(* the number of buffered messages                                         *)

\* AgentConfig with max_messages from 0 up, and the default
WindowConfigs ==
    [system_prompt : {DefaultSystemPrompt},
     max_messages : {0, 1, 2, 100},
     max_context_tokens : {8192},
     tools_enabled : {TRUE}]

\* buffers left by earlier calls: empty, or a User message and its reply
WindowBuffers == {<<>>, <<Message_user(Hi), Message_assistant(OkText)>>}

WindowCapacity == MaxBuffer + 1

WindowInit == InitWith(WindowConfigs, {AnyProvider}, WindowBuffers, WindowCapacity, 0)

\* a completion that calls archival_search, whose Tool message and envelope
\* enter the buffer before the next iteration's prompt is built
SearchCompletion ==
    [text |-> <<>>,
     tool_calls |-> <<[id |-> "call_1", name |-> "archival_search",
                       arguments |-> JObj([query |-> JStr(Hi)])]>>,
     request_heartbeat |-> FALSE,
     usage |-> NoUsage]

WindowNext ==
    \/ Step(Hi)
    \/ ReplyOnly
    \/ LoopHead
    \/ ProviderFails
    \/ ProviderReturns(TextCompletions \cup {SearchCompletion})

WindowSpec == WindowInit /\ [][WindowNext]_vars

---------------------------------------------------------------------------
(* agent.rs: step on one side, send_only followed by reply_only on the     *)
(* other, on every short input                                             *)

\* an agent with two host calls left, its buffer empty or holding a reply
EquivInit == InitAgent({<<>>, <<Message_assistant(OkText)>>}, MaxOps - 2)

\* the inputs: empty, blank, quotes, quotes with whitespace before, after
\* and between them, a full stop, and text
EquivInputs ==
    {<<>>, <<32>>, <<34>>, <<226, 128, 156>>, <<34, 32>>, <<32, 34>>,
     <<34, 32, 34>>, <<46>>, <<97>>, <<32, 97>>}

EquivNext ==
    \/ \E t \in EquivInputs : Step(t)
    \/ \E t \in EquivInputs : SendOnly(t)
    \/ ReplyOnly
    \/ LoopHead
    \/ ProviderFails
    \/ ProviderReturns(TextCompletions)

EquivSpec == EquivInit /\ [][EquivNext]_vars

---------------------------------------------------------------------------
(* agent.rs: agents with tools enabled and disabled, run against the toy   *)
(* provider                                                                *)

\* reply_only's `tools` of the CompletionRequest: the names of the schemas
\* of the registered tools, none when tools are disabled
RequestTools(cfg, tools) ==
    IF cfg.tools_enabled THEN DOMAIN tools ELSE {}

\* AgentConfig::default() with tools_enabled either way
DisabledConfigs ==
    [system_prompt : {DefaultSystemPrompt},
     max_messages : {100},
     max_context_tokens : {8192},
     tools_enabled : BOOLEAN]

DisabledInit == InitWith(DisabledConfigs, ToyProviders, {<<>>}, BufferCapacity, 0)

DisabledSpec == DisabledInit /\ [][ToyNext]_vars

---------------------------------------------------------------------------
(* af.rs: import of exported documents and of the document of an agent     *)
(* with a basic memory                                                     *)

\* "BasicMemory"
BasicMemoryClass == <<66, 97, 115, 105, 99, 77, 101, 109, 111, 114, 121>>

\* what AgentFile::export writes for an agent whose memory is
\* Memory::new_basic() with the one block "human"
BasicMemoryFile ==
    LET doc == AgentFile_export([system_prompt |-> DefaultSystemPrompt,
                                 max_messages |-> 100, max_context_tokens |-> 8192,
                                 tools_enabled |-> TRUE],
                                [info |-> AgentInfo,
                                 memory |-> [l \in {Human} |-> Memory_new_chat[Human]],
                                 messages |-> <<Message_user(Hi)>>,
                                 max_size |-> BufferCapacity,
                                 archival_entries |-> <<>>],
                                <<>>, <<Human>>, 0)
    IN [doc EXCEPT !.agents[1].agent_state.memory.memory_class = BasicMemoryClass]

\* the texts given to letta_load_af: the document of the basic memory and
\* the file last exported
ImportedFiles ==
    {to_json(BasicMemoryFile)} \cup (IF af.some THEN {to_json(af.v)} ELSE {})

ImportNext ==
    \/ SetMemoryBlock(TestLabel, Hi)
    \/ AddArchival(DefaultFolder, Hi)
    \/ Tick
    \/ ExportAf
    \/ \E json \in ImportedFiles : LoadAf(json)

ImportSpec == Init /\ [][ImportNext]_vars

---------------------------------------------------------------------------
(* ffi/src/lib.rs: the host binding, called from several host threads.     *)
(* Each of the statics AGENTS, STORAGE and SYNC_CLIENT is a Mutex: the      *)
(* thread holding it, its poison flag and its content.  An agent is kept    *)
(* as what the binding's host_calls do to it: whether a step is running on it,   *)
(* the steps completed, the blocks set, the entries appended and the files  *)
(* loaded.  A binding call is entered, runs to the lock it takes and from   *)
(* there to its return.                                                     *)

\* the variables the binding does not touch
CoreVars ==
    <<config, provider, tool_executor, memory, messages, max_size, archival_entries,
      current_tokens, pc, call, iterations, tool_trace, result, provider_calls,
      pushed, iter_pushed, last_iter, ops, request, info, now, af, db, runs, sync>>

\* agents created in one behaviour
MaxAgents == 2
\* binding host_calls of one thread in one behaviour
MaxBindingCalls == 2

\* Mutex::new(content)
NewMutex(content) == [owner |-> None, poisoned |-> FALSE, v |-> content]

\* a lock() that takes the mutex whoever holds it
CanLockHeld(m) == TRUE

\* lock() returns only when no thread holds the mutex
CanLock(m) == ~m.owner.some

\* the guard is kept: the mutex stays with the thread
KeepLocked(m, t) == [m EXCEPT !.owner = Some(t)]

\* a guard that is never dropped
NeverUnlock(m, t) == m

\* the MutexGuard is dropped at the end of its scope
Unlock(m, t) == [m EXCEPT !.owner = None]

\* a guard dropped while its thread panics poisons the mutex
Poison(m, t) ==
    IF m.owner = Some(t) THEN [m EXCEPT !.owner = None, !.poisoned = TRUE] ELSE m

\* Agent::new seen from the binding
NewAgent == [stepping |-> FALSE, steps |-> 0, block |-> FALSE, archival |-> 0,
             loaded |-> FALSE]

\* the binding's functions that take an agent handle
AgentFunctions ==
    {"letta_free_agent", "letta_load_af", "letta_export_af", "letta_set_block",
     "letta_get_block", "letta_append_archival", "letta_search_archival",
     "letta_converse", "letta_sync_with_cloud"}

\* the binding's functions
Functions ==
    AgentFunctions \cup {"letta_init_storage", "letta_create_agent",
                         "letta_configure_sync"}

\* the functions with an argument, besides the handle, that they can refuse:
\* a text that is no JSON or no agent file, a value beyond the block's limit,
\* a label without a block, a path that cannot be opened
Refusing ==
    {"letta_init_storage", "letta_create_agent", "letta_load_af", "letta_set_block",
     "letta_get_block", "letta_converse", "letta_configure_sync"}

\* the handles a host can pass: null, or a pointer letta_create_agent
\* returned, freed since or not (handles[k] is the AgentHandle it points to)
HandleArgs == {None} \cup {Some(k) : k \in DOMAIN handles}

\* handle.index read through the pointer.  The AgentHandle of a freed handle
\* has been deallocated by letta_free_agent: the read is undefined and may
\* yield any index, in the registry or beyond it.
ReadIndex(k) ==
    IF handles[k].live THEN {handles[k].index} ELSE 0..MaxAgents

\* handle.index >= agents.len() || agents[handle.index].is_none(), negated
Occupied(agents, index) == index < Len(agents) /\ agents[index + 1].some

\* the call returns
Return(c, ret) == [c EXCEPT !.pc = "idle", !.ret = ret]

\* thread t returns ret and the statics stay as they are
Returns_(t, ret) ==
    /\ host_calls' = [host_calls EXCEPT ![t] = Return(@, ret)]
    /\ UNCHANGED <<AGENTS, STORAGE, SYNC_CLIENT>>

\* a panic in a binding function.  It cannot leave an extern "C" function:
\* depending on the toolchain the process is aborted, every call with it, or
\* the panic unwinds, dropping the guards the thread holds.
Panics(t) ==
    \/ /\ host_calls' = [u \in Threads |-> [host_calls[u] EXCEPT !.pc = "aborted"]]
       /\ UNCHANGED <<AGENTS, STORAGE, SYNC_CLIENT>>
    \/ /\ host_calls' = [host_calls EXCEPT ![t] = Return(@, "panicked")]
       /\ AGENTS' = Poison(AGENTS, t)
       /\ STORAGE' = Poison(STORAGE, t)
       /\ SYNC_CLIENT' = Poison(SYNC_CLIENT, t)

\* a host thread host_calls a function of the binding
Enter(t) ==
    /\ host_calls[t].pc = "idle"
    /\ host_calls[t].made < MaxBindingCalls
    /\ \E fn \in Functions :
       \E h \in (IF fn \in AgentFunctions THEN HandleArgs ELSE {None}) :
       \E valid \in (IF fn \in Refusing THEN BOOLEAN ELSE {TRUE}) :
          /\ fn = "letta_create_agent" =>
                Len(AGENTS.v) + Cardinality({u \in Threads :
                                               /\ host_calls[u].pc = "called"
                                               /\ host_calls[u].fn = fn}) < MaxAgents
          /\ host_calls' = [host_calls EXCEPT ![t] =
                          [fn |-> fn, pc |-> "called", handle |-> h, valid |-> valid,
                           freed |-> h.some /\ ~handles[h.v].live,
                           ret |-> "none", reached |-> None, made |-> @.made + 1]]
    /\ UNCHANGED <<AGENTS, STORAGE, SYNC_CLIENT, handles, CoreVars>>

\* thread t is in fn, before its first lock
Called(t, fn) == host_calls[t].pc = "called" /\ host_calls[t].fn = fn

\* letta_init_storage: Storage::new, then STORAGE is locked and set
InitStorage(t) ==
    /\ Called(t, "letta_init_storage")
    /\ IF ~host_calls[t].valid THEN Returns_(t, "failure")
       ELSE /\ CanLock(STORAGE)
            /\ IF STORAGE.poisoned THEN Panics(t)
               ELSE /\ STORAGE' = [STORAGE EXCEPT !.v = Some("storage")]
                    /\ host_calls' = [host_calls EXCEPT ![t] = Return(@, "success")]
                    /\ UNCHANGED <<AGENTS, SYNC_CLIENT>>
    /\ UNCHANGED <<handles, CoreVars>>

\* letta_create_agent: the agent is built, then pushed under the lock; the
\* handle returned carries the index agents.len() had
CreateAgent(t) ==
    /\ Called(t, "letta_create_agent")
    /\ IF ~host_calls[t].valid
       THEN Returns_(t, "failure") /\ UNCHANGED handles
       ELSE /\ CanLock(AGENTS)
            /\ IF AGENTS.poisoned THEN Panics(t) /\ UNCHANGED handles
               ELSE LET index == Len(AGENTS.v)
                    IN /\ AGENTS' = [AGENTS EXCEPT !.v = Append(@, Some(NewAgent))]
                       /\ handles' = Append(handles, [index |-> index, live |-> TRUE])
                       /\ host_calls' = [host_calls EXCEPT ![t] = Return(@, "success")]
                       /\ UNCHANGED <<STORAGE, SYNC_CLIENT>>
    /\ UNCHANGED CoreVars

\* letta_free_agent: Box::from_raw(handle) takes the AgentHandle back, to be
\* dropped with the call; the slot is emptied under the lock
FreeAgent(t) ==
    /\ Called(t, "letta_free_agent")
    /\ IF ~host_calls[t].handle.some
       THEN Returns_(t, "success") /\ UNCHANGED handles
       ELSE LET k == host_calls[t].handle.v
            IN /\ CanLock(AGENTS)
               /\ handles' = [handles EXCEPT ![k].live = FALSE]
               /\ IF AGENTS.poisoned THEN Panics(t)
                  ELSE \E index \in ReadIndex(k) :
                         /\ AGENTS' = IF index < Len(AGENTS.v)
                                      THEN [AGENTS EXCEPT !.v[index + 1] = None]
                                      ELSE AGENTS
                         /\ host_calls' = [host_calls EXCEPT ![t] =
                                         [Return(@, "success") EXCEPT !.reached =
                                             IF Occupied(AGENTS.v, index)
                                             THEN Some(index) ELSE None]]
                         /\ UNCHANGED <<STORAGE, SYNC_CLIENT>>
    /\ UNCHANGED CoreVars

\* what a function does to the agent it reached, and what it returns
Effect(fn, valid, agent) ==
    CASE fn = "letta_load_af" ->
           IF valid THEN [agent |-> [agent EXCEPT !.loaded = TRUE, !.block = FALSE,
                                                  !.archival = 0],
                          ret |-> "success"]
           ELSE [agent |-> agent, ret |-> "failure"]
      [] fn = "letta_set_block" ->
           IF valid THEN [agent |-> [agent EXCEPT !.block = TRUE], ret |-> "success"]
           ELSE [agent |-> agent, ret |-> "failure"]
      [] fn = "letta_append_archival" ->
           [agent |-> [agent EXCEPT !.archival = @ + 1], ret |-> "success"]
      [] fn = "letta_get_block" ->
           [agent |-> agent, ret |-> IF valid THEN "success" ELSE "failure"]
      [] OTHER -> [agent |-> agent, ret |-> "success"]

\* the functions that lock AGENTS, check the handle's slot and act on the
\* agent in it, all under the one guard
AgentCall(t, fn) ==
    /\ Called(t, fn)
    /\ IF ~host_calls[t].handle.some THEN Returns_(t, "failure")
       ELSE /\ CanLock(AGENTS)
            /\ IF AGENTS.poisoned THEN Panics(t)
               ELSE \E index \in ReadIndex(host_calls[t].handle.v) :
                      IF ~Occupied(AGENTS.v, index) THEN Returns_(t, "failure")
                      ELSE LET e == Effect(fn, host_calls[t].valid, AGENTS.v[index + 1].v)
                           IN /\ AGENTS' = [AGENTS EXCEPT !.v[index + 1] = Some(e.agent)]
                              /\ host_calls' = [host_calls EXCEPT ![t] =
                                              [Return(@, e.ret) EXCEPT
                                                  !.reached = Some(index)]]
                              /\ UNCHANGED <<STORAGE, SYNC_CLIENT>>
    /\ UNCHANGED <<handles, CoreVars>>

\* letta_load_af, letta_export_af, letta_set_block, letta_get_block,
\* letta_append_archival, letta_search_archival
LoadAgentFile(t) == AgentCall(t, "letta_load_af")
ExportAgentFile(t) == AgentCall(t, "letta_export_af")
SetBlock(t) == AgentCall(t, "letta_set_block")
GetBlock(t) == AgentCall(t, "letta_get_block")
AppendArchival(t) == AgentCall(t, "letta_append_archival")
SearchArchival(t) == AgentCall(t, "letta_search_archival")

\* letta_converse up to RUNTIME.block_on: the message is parsed, AGENTS is
\* locked, the slot checked, and agent.step starts under the guard
ConverseBegin(t) ==
    /\ Called(t, "letta_converse")
    /\ IF ~host_calls[t].handle.some \/ ~host_calls[t].valid THEN Returns_(t, "failure")
       ELSE /\ CanLock(AGENTS)
            /\ IF AGENTS.poisoned THEN Panics(t)
               ELSE \E index \in ReadIndex(host_calls[t].handle.v) :
                      IF ~Occupied(AGENTS.v, index) THEN Returns_(t, "failure")
                      ELSE /\ AGENTS' = [KeepLocked(AGENTS, t) EXCEPT
                                            !.v[index + 1].v.stepping = TRUE]
                           /\ host_calls' = [host_calls EXCEPT ![t].pc = "step",
                                                     ![t].reached = Some(index)]
                           /\ UNCHANGED <<STORAGE, SYNC_CLIENT>>
    /\ UNCHANGED <<handles, CoreVars>>

\* letta_converse from the end of agent.step: the step returned a result, or
\* an error, and the envelope is returned as the guard is dropped; or the
\* step panicked
ConverseEnd(t) ==
    /\ host_calls[t].pc = "step"
    /\ LET index == host_calls[t].reached.v
       IN \/ /\ AGENTS' = [Unlock(AGENTS, t) EXCEPT
                              !.v[index + 1].v.stepping = FALSE,
                              !.v[index + 1].v.steps = @ + 1]
             /\ host_calls' = [host_calls EXCEPT ![t] = Return(@, "success")]
             /\ UNCHANGED <<STORAGE, SYNC_CLIENT>>
          \/ /\ AGENTS' = [Unlock(AGENTS, t) EXCEPT
                              !.v[index + 1].v.stepping = FALSE]
             /\ host_calls' = [host_calls EXCEPT ![t] = Return(@, "failure")]
             /\ UNCHANGED <<STORAGE, SYNC_CLIENT>>
          \/ Panics(t)
    /\ UNCHANGED <<handles, CoreVars>>

\* letta_configure_sync: the configuration is parsed and SyncClient::new
\* called, then SYNC_CLIENT is locked and set
ConfigureSync(t) ==
    /\ Called(t, "letta_configure_sync")
    /\ IF ~host_calls[t].valid THEN Returns_(t, "failure")
       ELSE /\ CanLock(SYNC_CLIENT)
            /\ IF SYNC_CLIENT.poisoned THEN Panics(t)
               ELSE /\ SYNC_CLIENT' = [SYNC_CLIENT EXCEPT !.v = Some("client")]
                    /\ host_calls' = [host_calls EXCEPT ![t] = Return(@, "success")]
                    /\ UNCHANGED <<AGENTS, STORAGE>>
    /\ UNCHANGED <<handles, CoreVars>>

\* letta_sync_with_cloud up to its second lock: SYNC_CLIENT is locked, and
\* kept when a client is configured
SyncLock(t) ==
    /\ Called(t, "letta_sync_with_cloud")
    /\ IF ~host_calls[t].handle.some THEN Returns_(t, "failure")
       ELSE /\ CanLock(SYNC_CLIENT)
            /\ IF SYNC_CLIENT.poisoned THEN Panics(t)
               ELSE IF ~SYNC_CLIENT.v.some THEN Returns_(t, "failure")
               ELSE /\ SYNC_CLIENT' = KeepLocked(SYNC_CLIENT, t)
                    /\ host_calls' = [host_calls EXCEPT ![t].pc = "sync_agents"]
                    /\ UNCHANGED <<AGENTS, STORAGE>>
    /\ UNCHANGED <<handles, CoreVars>>

\* letta_sync_with_cloud from its lock of AGENTS, taken while SYNC_CLIENT is
\* held: the slot is checked, the agent's state exported, both guards dropped
SyncAgents(t) ==
    /\ host_calls[t].pc = "sync_agents"
    /\ CanLock(AGENTS)
    /\ IF AGENTS.poisoned THEN Panics(t)
       ELSE /\ \E index \in ReadIndex(host_calls[t].handle.v) :
                 host_calls' = [host_calls EXCEPT ![t] =
                    IF Occupied(AGENTS.v, index)
                    THEN [Return(@, "success") EXCEPT !.reached = Some(index)]
                    ELSE Return(@, "failure")]
            /\ SYNC_CLIENT' = Unlock(SYNC_CLIENT, t)
            /\ UNCHANGED <<AGENTS, STORAGE>>
    /\ UNCHANGED <<handles, CoreVars>>

\* thread t's call in progress takes its next step
Proceed(t) ==
    \/ InitStorage(t)
    \/ CreateAgent(t)
    \/ FreeAgent(t)
    \/ LoadAgentFile(t)
    \/ ExportAgentFile(t)
    \/ SetBlock(t)
    \/ GetBlock(t)
    \/ AppendArchival(t)
    \/ SearchArchival(t)
    \/ ConverseBegin(t)
    \/ ConverseEnd(t)
    \/ ConfigureSync(t)
    \/ SyncLock(t)
    \/ SyncAgents(t)

BindingNext == \E t \in Threads : Enter(t) \/ Proceed(t)

BindingSpec == Init /\ [][BindingNext]_vars

\* the scheduler lets every thread that can run do so: a call that can take
\* its next step eventually takes it
BindingLiveSpec == BindingSpec /\ \A t \in Threads : WF_vars(Proceed(t))

---------------------------------------------------------------------------
(* Properties *)

Last(s) == s[Len(s)]

\* the number of messages of a role in a sequence of messages
Count(msgs, role) == Cardinality({i \in 1..Len(msgs) : msgs[i].role = role})

\* the running (or last) call is one of `names` and has returned successfully
ReturnedOk(names) ==
    pc = "idle" /\ call.name \in names /\ result.status = "ok"

\* the last iteration's completion asked for the loop to continue: it carried
\* tool calls and it, or one of the executed results, requested a heartbeat
Continues(it) ==
    /\ it.completion.tool_calls # <<>>
    /\ (it.completion.request_heartbeat \/ it.request_heartbeat)

\* C1: every memory block satisfies len(value) <= limit in every state
\* reachable through set_memory_block and the memory_replace / memory_append
\* tools, a block created by the first set_block on a new label included.
C1_BlocksWithinLimit ==
    \A l \in DOMAIN memory : Len(memory[l].value) <= memory[l].limit

\* C2: set_memory_block with a value longer than 2000 bytes returns a Memory
\* error, whether or not the label exists, and with a value within the limit
\* it succeeds (also right after such an error on the same label).
C2_OversizeRejected ==
    (pc = "idle" /\ call.name = "set_memory_block") =>
        LET value == call.input.v[2]
        IN IF Len(value) > 2000
           THEN result.status = "err" /\ result.err.kind = "Memory"
           ELSE result = ResOk(TRUE)

\* C3: a call of step or reply_only makes at most 10 provider calls: the
\* provider is never awaited after 10 calls, the iteration-cap error is
\* returned exactly after 10 calls whose completions all continued the loop,
\* and a completion that does not continue the loop ends the call at once.
C3_ProviderCallCap ==
    call.name \in {"step", "reply_only"} =>
        /\ provider_calls <= 10
        /\ pc = "await" => provider_calls < 10
        /\ (pc = "idle"
            /\ result = ResErr(ToolExecution("Maximum iterations exceeded")))
              => (provider_calls = 10 /\ iterations = 11)
        /\ (last_iter.some /\ last_iter.v.ok) =>
              IF Continues(last_iter.v)
              THEN pc = "loop" /\ result.status = "none"
              ELSE pc = "idle" /\ result.status = "ok"

\* C3's case: the call ended with the iteration-cap error
C3_CapReached ==
    /\ pc = "idle"
    /\ call.name \in {"step", "reply_only"}
    /\ result = ResErr(ToolExecution("Maximum iterations exceeded"))
    /\ provider_calls = 10

\* C4: in an iteration that executes a batch of tool calls, the Tool messages
\* are appended in the order of the calls, each carrying its call's id; the
\* one Assistant envelope with the tool_calls follows all of them; tool_trace
\* gets one entry per executed call in the same order.
C4_BatchOrder ==
    (last_iter.some /\ last_iter.v.completion.tool_calls # <<>>) =>
        LET it == last_iter.v
            calls == it.completion.tool_calls
            n == Len(calls)
            \* a context summary may precede the batch in the iteration
            s == IF iter_pushed # <<>> /\ iter_pushed[1].role = "system"
                 THEN 1 ELSE 0
            tools == {i \in 1..Len(iter_pushed) : iter_pushed[i].role = "tool"}
            k == Cardinality(tools)
            envelopes == {i \in 1..Len(iter_pushed) :
                             iter_pushed[i].tool_calls.some}
            m == Min(Len(iter_pushed), Len(messages))
        IN /\ tools = (s + 1)..(s + k)
           /\ k <= n
           /\ \A i \in 1..k :
                iter_pushed[s + i].tool_call_id = Some(calls[i].id)
           /\ Len(tool_trace) >= k
           /\ \A i \in 1..k :
                LET e == tool_trace[Len(tool_trace) - k + i]
                IN e.tool = calls[i].name /\ e.args = calls[i].arguments
           /\ IF it.ok
              THEN /\ k = n
                   /\ envelopes = {s + n + 1}
                   /\ iter_pushed[s + n + 1].role = "assistant"
                   /\ Len(iter_pushed[s + n + 1].tool_calls.v) = n
                   /\ \A i \in 1..n :
                        iter_pushed[s + n + 1].tool_calls.v[i].id = calls[i].id
              ELSE k < n /\ envelopes = {}
           /\ SubSeq(messages, Len(messages) - m + 1, Len(messages))
                = SubSeq(iter_pushed, Len(iter_pushed) - m + 1, Len(iter_pushed))

\* C4's case: a batch of two calls with different ids was executed
C4_TwoCallBatch ==
    /\ last_iter.some
    /\ last_iter.v.ok
    /\ Len(last_iter.v.completion.tool_calls) = 2
    /\ last_iter.v.completion.tool_calls[1].id
         # last_iter.v.completion.tool_calls[2].id
    /\ Count(iter_pushed, "tool") = 2

\* the iteration's batch succeeded, the completion's text is empty, and neither
\* the completion nor a tool result requested a heartbeat
EmptyNoHeartbeat ==
    /\ last_iter.some
    /\ last_iter.v.ok
    /\ last_iter.v.completion.text = <<>>
    /\ ~last_iter.v.completion.request_heartbeat
    /\ ~last_iter.v.request_heartbeat

\* C5 as stated: after a completion with empty text and no heartbeat the call
\* does not return and appends no final assistant reply; the loop continues.
C5_EmptyTextContinues ==
    EmptyNoHeartbeat =>
        /\ pc = "loop"
        /\ result.status # "ok"
        /\ \A i \in 1..Len(iter_pushed) :
             iter_pushed[i].role = "assistant" => iter_pushed[i].tool_calls.some

\* C5, amended: after a completion with empty text and no heartbeat the call
\* returns in that iteration, its final Assistant reply and returned text
\* being "I have no response to share.".
C5_EmptyTextFallsBack ==
    EmptyNoHeartbeat =>
        /\ pc = "idle"
        /\ result.status = "ok"
        /\ result.v.text = NoResponseText
        /\ Last(iter_pushed) = Message_assistant(NoResponseText)
        /\ Last(messages) = Message_assistant(NoResponseText)

\* C5's case: a completion of tool calls only, without text or heartbeat
C5_PureToolCompletion ==
    /\ EmptyNoHeartbeat
    /\ last_iter.v.completion.tool_calls # <<>>

QuoteScalars == {<<34>>, <<39>>, <<226, 128, 156>>, <<226, 128, 157>>}

\* the scalars of the running call's input, trimmed
TrimmedInput == trim(Chars(call.input.v))

\* trivial as the input filter is described: after trimming, the input is
\* empty, a single FULL STOP or a single IDEOGRAPHIC FULL STOP
FullStopTrivial(cs) == cs \in {<<>>, << <<46>> >>, << <<227, 128, 130>> >>}

\* after trimming, the input is empty or made of quote characters only
OnlyQuotes(cs) == \A i \in 1..Len(cs) : cs[i] \in QuoteScalars

\* the input has a character that is neither whitespace nor a quote
HasContent(cs) ==
    \E i \in 1..Len(cs) : cs[i] \notin QuoteScalars /\ ~IsWhitespace(cs[i])

C8_QuotesAndWhitespace ==
    call.name = "step" =>
        LET cs == Chars(call.input.v)
        IN /\ ( /\ \A i \in 1..Len(cs) :
                      cs[i] \in QuoteScalars \/ IsWhitespace(cs[i])
                /\ \E i \in 1..Len(cs) : cs[i] \in QuoteScalars )
              => /\ Count(pushed, "user") = 0
                 /\ ReturnedOk({"step"}) => Count(pushed, "assistant") = 1
           /\ call.input.v = <<227, 128, 140, 227, 128, 141>>
              => pushed # <<>> /\ pushed[1] = Message_user(call.input.v)

TextOnly ==
    /\ provider_calls = 1
    /\ last_iter.some
    /\ last_iter.v.completion.tool_calls = <<>>

\* C10 as stated: when step or reply_only returns successfully the last
\* appended message is an Assistant message with the returned, non-empty text;
\* with a text-only provider a substantive step grows the buffer by exactly
\* two messages and reply_only or a trivial step by exactly one.
C10_GrowsByTwoOrOne ==
    ReturnedOk({"step", "reply_only"}) =>
        /\ result.v.text # <<>>
        /\ pushed # <<>>
        /\ Last(pushed) = Message_assistant(result.v.text)
        /\ TextOnly =>
             Len(messages) - call.len_before =
                IF call.name = "step" /\ ~FullStopTrivial(TrimmedInput)
                THEN 2 ELSE 1

\* C10, amended: when step or reply_only returns successfully the last
\* appended message, and the last of the buffer, is an Assistant message with
\* the returned, non-empty text; with a text-only provider a step whose input
\* has a character that is neither whitespace nor a quote appends User then
\* Assistant, and reply_only or a step on an empty or quotes-only input
\* appends the Assistant message alone, in each case after a "Context
\* summary" System message when the prompt reached the summarization
\* threshold; the buffer grows by the number of appended messages up to its
\* capacity, beyond which the oldest messages are dropped.
C10_ReplyIsLast ==
    ReturnedOk({"step", "reply_only"}) =>
        LET reply == Message_assistant(result.v.text)
            sent == call.name = "step" /\ HasContent(TrimmedInput)
            alone == call.name = "reply_only" \/ OnlyQuotes(TrimmedInput)
            user == Message_user(call.input.v)
            summaries == {i \in 1..Len(pushed) : pushed[i].role = "system"}
        IN /\ result.v.text # <<>>
           /\ pushed # <<>>
           /\ Last(pushed) = reply
           /\ Last(messages) = reply
           /\ Len(messages) = Min(max_size, call.len_before + Len(pushed))
           /\ TextOnly =>
                /\ sent => /\ SelectSeq(pushed, LAMBDA m : m.role # "system")
                                = <<user, reply>>
                           /\ summaries \subseteq {2}
                /\ alone => /\ SelectSeq(pushed, LAMBDA m : m.role # "system")
                                = <<reply>>
                            /\ summaries \subseteq {1}

\* C10's case: a substantive step returned after a context summary
C10_StepWithSummary ==
    /\ ReturnedOk({"step"})
    /\ TextOnly
    /\ Len(pushed) = 3
    /\ pushed[2].role = "system"



---------------------------------------------------------------------------
(* The agent against the toy provider *)

\* a step whose input carries the tag has returned
StepReturned(tag) ==
    /\ pc = "idle"
    /\ call.name = "step"
    /\ contains(call.input.v, tag)

\* C11: with the toy provider a step whose input contains #DO_SEARCH
\* succeeds after two completions (one archival_search call with heartbeat,
\* then a text): its text begins "Based on the search results," and its
\* tool_trace has the one entry of archival_search
C11_SearchStepSucceeds ==
    StepReturned(DoSearchTag) =>
        /\ result.status = "ok"
        /\ provider_calls = 2
        /\ take(result.v.text, Len(BasedOnTheSearchResults))
               = BasedOnTheSearchResults
        /\ Len(result.v.tool_trace) = 1
        /\ result.v.tool_trace[1].tool = "archival_search"


\* the conversation so far holds none of the toy provider's tool tags
PlainConversation ==
    \A i \in 1..Len(messages) :
        /\ ~contains(messages[i].content, DoSearchTag)
        /\ ~contains(messages[i].content, MemoryUpdateTag)

\* C12: with max_context_tokens = 100 and the toy provider every step of the
\* 21 consecutive short user messages succeeds and returns a non-empty text
\* (no ContextOverflow)
C12_ShortStepsSucceed ==
    (/\ config.max_context_tokens = 100
     /\ pc = "idle"
     /\ call.name = "step"
     /\ ops <= TestMessages + 1
     /\ PlainConversation)
    => /\ result.status = "ok"
       /\ result.v.text # <<>>


---------------------------------------------------------------------------
(* The context window *)

\* a loop iteration is about to build its prompt
BuildsPrompt == pc = "loop" /\ ~IterationCapExceeded(iterations + 1)

\* the estimate build_prompt makes of the prompt of the current state
Estimate ==
    PromptTokens(config.system_prompt, memory, messages, config.max_messages)

\* C13: build_prompt fails with ContextOverflow iff its estimate is strictly
\* greater than max_tokens (at exactly max_tokens it succeeds), and the error
\* carries that estimate and max_tokens
C13_OverflowIffAbove ==
    [][BuildsPrompt =>
         /\ (Estimate > config.max_context_tokens) <=>
                (result'.status = "err" /\ result'.err.kind = "ContextOverflow")
         /\ (Estimate > config.max_context_tokens) =>
                /\ result' = ResErr(ContextOverflow(Estimate,
                                                    config.max_context_tokens))
                /\ pc' = "idle"
                /\ request' = None
         /\ (Estimate <= config.max_context_tokens) => request'.some]_vars

\* build_prompt has failed on an estimate one above the maximum
C13_OverflowByOne ==
    /\ pc = "idle"
    /\ result.status = "err"
    /\ result.err.kind = "ContextOverflow"
    /\ result.err.current = result.err.max + 1
    /\ result.err.max = config.max_context_tokens


\* n / 4 rounded down and rounded up
Floor4(n) == n \div 4
Ceil4(n) == (n + 3) \div 4

\* the sum over the blocks of floor(len(value)/4)
BlockShare ==
    SumOver([l \in DOMAIN memory |-> Floor4(Len(memory[l].value))], DOMAIN memory)

\* the sum over the messages build_prompt includes (the last max_messages of
\* the buffer) of floor(len(content)/4)
MessageShare ==
    LET first == IF Len(messages) > config.max_messages
                 THEN Len(messages) - config.max_messages + 1 ELSE 1
        included == first..Len(messages)
    IN SumOver([i \in included |-> Floor4(Len(messages[i].content))], included)

\* C14 as stated: after build_prompt current_tokens is
\* ceil(len(system_prompt)/4) plus the floor shares of the blocks and of the
\* included messages
C14_SystemPromptRoundedUp ==
    [][BuildsPrompt =>
         current_tokens' = Ceil4(Len(config.system_prompt))
                           + BlockShare + MessageShare]_vars

\* C14 amended: after build_prompt current_tokens is floor(len(system_prompt)/4)
\* plus the floor shares of the blocks and of the included messages
C14_AllSharesRoundedDown ==
    [][BuildsPrompt =>
         current_tokens' = Floor4(Len(config.system_prompt))
                           + BlockShare + MessageShare]_vars

\* a prompt has been built from a system prompt whose length is no multiple
\* of 4, blocks and messages that all contribute to the estimate
C14_PromptBuilt ==
    /\ pc = "await"
    /\ Len(config.system_prompt) % 4 # 0
    /\ Memory_token_estimate(memory) > 0
    /\ current_tokens > Floor4(Len(config.system_prompt))
                        + Memory_token_estimate(memory)


---------------------------------------------------------------------------
(* The agent file *)

\* the agent has just been exported
Exported == pc = "idle" /\ call.name = "export_af" /\ af.some

\* export -> to_json -> from_json -> import of the document last exported
RoundTrip ==
    LET parsed == from_json(to_json(af.v))
    IN IF parsed.ok THEN AgentFile_import(parsed.v) ELSE parsed

\* C15: export -> to_json -> from_json -> import yields the same id, name,
\* created_at, updated_at and metadata, a config with the same system
\* prompt, every exported block unchanged and the full message array in
\* order, also when it has more than 100 messages
C15_RoundTripPreserves ==
    Exported =>
        /\ RoundTrip.ok
        /\ RoundTrip.v.state.info = info
        /\ RoundTrip.v.config.system_prompt = config.system_prompt
        /\ \A l \in DOMAIN memory :
               /\ l \in DOMAIN RoundTrip.v.state.memory
               /\ RoundTrip.v.state.memory[l] = memory[l]
        /\ RoundTrip.v.state.messages = messages

\* C16: a failed import (letta_load_af, Agent::import_state) leaves the
\* agent's memory, messages, archival entries, id and timestamps as they
\* were before the call
C16_FailedImportKeepsState ==
    [][(/\ ops' = ops + 1
        /\ call'.name \in {"load_af", "import_state"}
        /\ result'.status = "err")
       => UNCHANGED <<memory, messages, max_size, archival_entries, info>>]_vars

\* an agent holding messages has refused an agent file without agents
C16_ImportFailed ==
    /\ call.name = "load_af"
    /\ result.status = "err"
    /\ result.err.kind = "InvalidConfig"
    /\ messages # <<>>

\* C17: an exported document has version "0.1.0", export_source
\* "letta-lite" and exactly one agent; blocks[] has one record for each
\* memory block, with id "block_" + label, and the agent's memory.blocks lists
\* exactly those ids, each resolving to exactly one record
C17_ExportWellFormed ==
    Exported =>
        LET doc == af.v
            ids == doc.agents[1].agent_state.memory.blocks
        IN /\ doc.version = <<48, 46, 49, 46, 48>>
           /\ doc.metadata.export_source
                  = <<108, 101, 116, 116, 97, 45, 108, 105, 116, 101>>
           /\ Len(doc.agents) = 1
           /\ Len(doc.blocks) = Cardinality(DOMAIN memory)
           /\ \A l \in DOMAIN memory :
                  \E i \in DOMAIN doc.blocks :
                      /\ doc.blocks[i].label = l
                      /\ doc.blocks[i].id = <<98, 108, 111, 99, 107, 95>> \o l
           /\ Len(ids) = Len(doc.blocks)
           /\ {ids[j] : j \in DOMAIN ids}
                  = {doc.blocks[i].id : i \in DOMAIN doc.blocks}
           /\ \A j \in DOMAIN ids :
                  Cardinality({i \in DOMAIN doc.blocks :
                                   doc.blocks[i].id = ids[j]}) = 1

\* an agent with a block besides persona and human has been exported
C17_ThreeBlocksExported == Exported /\ Cardinality(DOMAIN memory) = 3


---------------------------------------------------------------------------
(* Failures *)

\* C18: a failure of the provider or of a tool handler ends the step at
\* once with that error and is not retried; when the k-th call of a batch
\* fails the later calls are not executed and neither the Assistant envelope
\* nor a final reply is appended, while the Tool messages and the state
\* changes of the calls before it remain
C18_FailureAborts ==
    [][(pc = "await" /\ result'.status = "err" /\ result'.err.kind # "panic")
       => /\ pc' = "idle"
          /\ provider_calls' = provider_calls + 1
          /\ iterations' = iterations
          /\ IF ~last_iter'.some
             THEN /\ result'.err.kind = "Provider"
                  /\ UNCHANGED <<memory, messages, archival_entries,
                                 tool_trace, iter_pushed, pushed>>
             ELSE LET calls == last_iter'.v.completion.tool_calls
                      done == Len(iter_pushed') - Len(iter_pushed)
                      before == RunBatch(SubSeq(calls, 1, done), State,
                                         max_size, tool_trace, FALSE,
                                         iter_pushed)
                  IN /\ done < Len(calls)
                     /\ before.ok
                     /\ ~ToolExecutor_execute(calls[done + 1], before.st).ok
                     /\ result'.err
                          = ToolExecutor_execute(calls[done + 1], before.st).err
                     /\ memory' = before.st.memory
                     /\ messages' = before.st.messages
                     /\ archival_entries' = before.st.archival_entries
                     /\ tool_trace' = before.trace
                     /\ iter_pushed' = before.out
                     /\ \A i \in (Len(iter_pushed) + 1)..Len(iter_pushed') :
                            iter_pushed'[i].role = "tool"]_vars

\* the second call of a batch has failed after the first replaced a block
C18_SecondCallFailed ==
    /\ pc = "idle"
    /\ result.status = "err"
    /\ last_iter.some
    /\ Len(last_iter.v.completion.tool_calls) = 2
    /\ Len(tool_trace) = 1
    /\ tool_trace[1].tool = "memory_replace"
    /\ memory[Human].value = Hi
    /\ Last(messages).role = "tool"

---------------------------------------------------------------------------
(* The tool executor *)

\* the error of ToolExecutor::execute for a name that is not registered
UnknownTool(name) == [kind |-> "ToolExecution", msg |-> "Unknown tool", name |-> name]

\* C19: ToolExecutor::execute of a call whose name is not registered fails
\* with ToolExecution("Unknown tool: <name>") and leaves the agent state as
\* it was; the five built-in names are registered in every executor, also
\* in one that registrations changed and in a clone.
C19_UnknownToolRefused ==
    [][/\ BuiltinTools \subseteq DOMAIN tool_executor
       /\ BuiltinTools \subseteq DOMAIN tool_executor'
       /\ (/\ ops' = ops + 1
           /\ call'.name = "execute"
           /\ call'.input.v.name \notin DOMAIN tool_executor)
          => /\ result' = ResErr(UnknownTool(call'.input.v.name))
             /\ UNCHANGED <<memory, messages, max_size, archival_entries,
                            info>>]_vars

\* a call of a name that no handler is registered under has been refused
C19_HostToolUnknown ==
    /\ call.name = "execute"
    /\ call.input.v.name = "host_tool"
    /\ result = ResErr(UnknownTool("host_tool"))
    /\ ops = MaxToolOps


\* the argument k of a call is a JSON string
IsStringArgument(args, k) ==
    args.t = "obj" /\ k \in DOMAIN args.o /\ args.o[k].t = "str"

\* the argument k of a call is absent
IsMissingArgument(args, k) == args.t = "obj" /\ k \notin DOMAIN args.o

\* the message of the error for a required argument
MissingParameter(k) ==
    CASE k = "label" -> "Missing 'label' parameter"
      [] k = "value" -> "Missing 'value' parameter"
      [] k = "text" -> "Missing 'text' parameter"
      [] k = "query" -> "Missing 'query' parameter"

\* the required arguments of a call that are missing or no strings
BadArguments(tc) ==
    {k \in {RequiredArguments(tc.name)[i] : i \in DOMAIN RequiredArguments(tc.name)} :
        ~IsStringArgument(tc.arguments, k)}

\* the stored archival entries and messages whose text holds the query
MatchingCount(tc) ==
    LET q == to_lowercase(tc.arguments.o["query"].s)
    IN IF tc.name = "archival_search"
       THEN Cardinality({i \in DOMAIN archival_entries :
                           /\ archival_entries[i].o["text"].t = "str"
                           /\ contains(to_lowercase(archival_entries[i].o["text"].s), q)})
       ELSE Cardinality({i \in DOMAIN messages :
                           contains(to_lowercase(messages[i].content), q)})

\* C20: a built-in handler called with a required argument missing or of a
\* JSON type other than string fails with ToolExecution("Missing '<arg>'
\* parameter") for such an argument and leaves memory, messages and archival
\* entries unchanged; with the required arguments given, a missing folder is
\* replaced by "default" and a missing top_k by 5, and the call succeeds.
C20_ArgumentsChecked ==
    [][(/\ ops' = ops + 1
        /\ call'.name = "execute"
        /\ call'.input.v.name \in DOMAIN tool_executor
        /\ tool_executor[call'.input.v.name] \in BuiltinHandlers)
       => LET tc == call'.input.v
          IN IF BadArguments(tc) # {}
             THEN /\ \E k \in BadArguments(tc) :
                        result' = ResErr(ToolExecution(MissingParameter(k)))
                  /\ UNCHANGED <<memory, messages, archival_entries>>
             ELSE /\ (tc.name = "archival_insert"
                        /\ IsMissingArgument(tc.arguments, "folder"))
                     => /\ result'.status = "ok"
                        /\ Len(archival_entries') = Len(archival_entries) + 1
                        /\ Last(archival_entries').o["folder"] = JStr(DefaultFolder)
                        /\ Last(archival_entries').o["text"] = tc.arguments.o["text"]
                  /\ (tc.name \in {"archival_search", "conversation_search"}
                        /\ IsMissingArgument(tc.arguments, "top_k"))
                     => /\ result'.status = "ok"
                        /\ result'.v.result.o["count"] = JNum(Min(5, MatchingCount(tc)))
                        /\ Len(result'.v.result.o["results"].a)
                             = Min(5, MatchingCount(tc))
                        /\ UNCHANGED <<memory, messages, archival_entries>>]_vars

\* memory_append has been refused for a text that is a number
C20_NumberRefused ==
    /\ call.name = "execute"
    /\ call.input.v.name = "memory_append"
    /\ call.input.v.arguments = JObj([label |-> JStr(Human), text |-> JNum(7)])
    /\ result = ResErr(ToolExecution("Missing 'text' parameter"))
    /\ memory = Memory_new_chat


---------------------------------------------------------------------------
(* The searches *)

\* the positions of the archival entries whose text holds the query of the
\* call, ignoring case
MatchingPositions(tc) ==
    {i \in DOMAIN archival_entries :
        /\ archival_entries[i].t = "obj"
        /\ "text" \in DOMAIN archival_entries[i].o
        /\ archival_entries[i].o["text"].t = "str"
        /\ contains(to_lowercase(archival_entries[i].o["text"].s),
                    to_lowercase(tc.arguments.o["query"].s))}

\* the j-th smallest member of a set of positions
Nth(S, j) == CHOOSE i \in S : Cardinality({x \in S : x < i}) = j - 1

\* top_k of a search call
TopK(tc) ==
    IF "top_k" \in DOMAIN tc.arguments.o THEN tc.arguments.o["top_k"].n ELSE 5

\* C21: archival_search returns exactly the first top_k archival entries, in
\* insertion order, whose text contains the query case-insensitively, with
\* count the number returned, and its result requests a heartbeat; the
\* results of the other four built-in tools request none.
C21_FirstMatchesInOrder ==
    [][(/\ ops' = ops + 1
        /\ call'.name = "execute"
        /\ call'.input.v.name \in BuiltinTools
        /\ result'.status = "ok")
       => LET tc == call'.input.v
              res == result'.v
          IN IF tc.name = "archival_search"
             THEN LET M == MatchingPositions(tc)
                      n == Min(TopK(tc), Cardinality(M))
                      found == res.result.o["results"].a
                  IN /\ res.success
                     /\ res.request_heartbeat
                     /\ res.result.o["count"] = JNum(n)
                     /\ Len(found) = n
                     /\ \A j \in 1..n : found[j] = archival_entries[Nth(M, j)]
                     /\ UNCHANGED archival_entries
             ELSE ~res.request_heartbeat]_vars

\* of two entries that match in different case a search with top_k = 1 has
\* returned the older one
C21_OlderOfTwoReturned ==
    /\ call.name = "execute"
    /\ call.input.v.name = "archival_search"
    /\ call.input.v.arguments = JObj([query |-> JStr(Hi), top_k |-> JNum(1)])
    /\ Len(archival_entries) = 2
    /\ archival_entries[1] = ArchivalEntry(DefaultFolder, HiCapital)
    /\ archival_entries[2] = ArchivalEntry(Notes, Hi)
    /\ result.status = "ok"
    /\ result.v.result = ReadResult(<<archival_entries[1]>>)
    /\ result.v.request_heartbeat


---------------------------------------------------------------------------
(* Appending to a memory block *)

\* a memory_append call with string arguments has been executed in this step
Appended ==
    /\ ops' = ops + 1
    /\ call'.name = "execute"
    /\ call'.input.v.name = "memory_append"
    /\ IsStringArgument(call'.input.v.arguments, "label")
    /\ IsStringArgument(call'.input.v.arguments, "text")

\* the last n bytes of s
Suffix(s, n) == SubSeq(s, Len(s) - n + 1, Len(s))

\* C22: append_block(L, t) on an existing block sets the value to
\* value + "\n" + t when that fits within the limit and otherwise to exactly
\* the last `limit` bytes of that concatenation, and never fails;
\* append_block on a label that has no block fails with a Memory error and
\* creates no block.
C22_AppendKeepsSuffix ==
    [][Appended
       => LET label == call'.input.v.arguments.o["label"].s
              text == call'.input.v.arguments.o["text"].s
          IN IF label \in DOMAIN memory
             THEN LET cat == memory[label].value \o <<10>> \o text
                      limit == memory[label].limit
                  IN /\ result'.status = "ok"
                     /\ DOMAIN memory' = DOMAIN memory
                     /\ memory'[label].value
                          = IF Len(cat) <= limit THEN cat ELSE Suffix(cat, limit)
                     /\ \A l \in DOMAIN memory \ {label} : memory'[l] = memory[l]
             ELSE /\ result'.status = "err"
                  /\ result'.err.kind = "Memory"
                  /\ memory' = memory]_vars

\* s is well-formed UTF-8 as far as scalar boundaries go: every lead byte is
\* followed by all of its continuation bytes, and every continuation byte
\* belongs to a lead byte
IsText(s) ==
    \A i \in 1..Len(s) :
        IF IsContinuation(s[i])
        THEN \E p \in 1..(i - 1) :
                /\ i - p < 4
                /\ ~IsContinuation(s[p])
                /\ i - p < ScalarWidth(s[p])
                /\ \A j \in (p + 1)..i : IsContinuation(s[j])
        ELSE /\ i + ScalarWidth(s[i]) - 1 <= Len(s)
             /\ \A j \in (i + 1)..(i + ScalarWidth(s[i]) - 1) : IsContinuation(s[j])

\* C23: MemoryBlock::append never splits a UTF-8 scalar and never aborts:
\* when the truncation point falls inside a multi-byte scalar the kept suffix
\* starts at the next scalar boundary, so the stored value is valid text of
\* at most `limit` bytes.
C23_AppendNeverAborts ==
    [][(Appended /\ call'.input.v.arguments.o["label"].s \in DOMAIN memory)
       => LET label == call'.input.v.arguments.o["label"].s
              text == call'.input.v.arguments.o["text"].s
              cat == memory[label].value \o <<10>> \o text
              limit == memory[label].limit
              start == saturating_sub(Len(cat), limit)
          IN /\ pc' # "panicked"
             /\ result'.status = "ok"
             /\ IsText(memory'[label].value)
             /\ Len(memory'[label].value) <= limit
             /\ ~is_char_boundary(cat, start)
                => \E next \in (start + 1)..Len(cat) :
                      /\ is_char_boundary(cat, next)
                      /\ \A i \in (start + 1)..(next - 1) : ~is_char_boundary(cat, i)
                      /\ memory'[label].value = Suffix(cat, Len(cat) - next)]_vars


---------------------------------------------------------------------------
(* The message buffer *)

\* C24: after any sequence of n pushes on a MessageBuffer of capacity
\* max_size the buffer holds exactly the most recent min(n, max_size) pushed
\* messages in push order: its length never exceeds max_size and eviction
\* removes the oldest message first.
C24_MostRecentKept ==
    LET n == Len(pushed)
        k == Min(n, max_size)
    IN /\ Len(messages) <= max_size
       /\ messages = SubSeq(pushed, n - k + 1, n)

\* two messages have been evicted from a buffer of capacity 2, the first of
\* them unlike the message now at the front
C24_OldestEvicted ==
    /\ max_size = 2
    /\ Len(pushed) = 4
    /\ pushed[1] # pushed[3]
    /\ messages = <<pushed[3], pushed[4]>>


\* C25: the number of messages buffered by an agent never exceeds its
\* configured max_messages, for an agent created with config.max_messages = N
\* and for one loaded from an agent file with message_buffer_size = N: the
\* oldest message is dropped once more than N have been appended.
C25_BufferWithinMaxMessages ==
    /\ Len(messages) <= config.max_messages
    /\ af.some => \A i \in DOMAIN af.v.agents :
                     af.v.agents[i].message_buffer_size = config.max_messages


---------------------------------------------------------------------------
(* updated_at *)

\* a host call returns in this step
CallReturns == pc' = "idle" /\ (pc # "idle" \/ ops' = ops + 1)

\* C26: every operation that changes the agent's memory blocks, message
\* buffer or archival entries has advanced updated_at when it returns: also
\* when the change was made by a tool handler inside a step, and when the
\* step ends in an error after it changed state.  (`pushed` holds every
\* message the call appended, the Tool message of each executed handler
\* among them; the clock does not advance while a call runs.)
C26_WritesAdvanceUpdatedAt ==
    [][(/\ CallReturns
        /\ \/ pushed' # <<>>
           \/ memory' # memory
           \/ messages' # messages
           \/ archival_entries' # archival_entries)
       => info'.updated_at = now']_vars


---------------------------------------------------------------------------
(* The store *)

\* C27: each migration is applied at most once: however often
\* run_migrations runs on the same database, every reopening of Storage on
\* the same file included, a migration's SQL is executed only if its name is
\* not yet recorded in the migrations table, the name is recorded afterwards,
\* and a second run changes nothing.
C27_MigrationsAppliedOnce ==
    [][/\ \A i \in DOMAIN MIGRATIONS :
             /\ db'.executed[i] <= 1
             /\ db'.executed[i] # db.executed[i]
                => MIGRATIONS[i] \notin db.migrations.names
       /\ \A t \in Threads :
             runs'[t].pc = "open"
             => \A i \in DOMAIN MIGRATIONS : MIGRATIONS[i] \in db'.migrations.names]_vars


\* the stored rows of a pair (agent_id, label)
RowsOf(rows, agent_id, label) ==
    {r \in rows : r.agent_id = agent_id /\ r.label = label}

\* C28: after any sequence of upsert_block calls the store holds at most one
\* block for each pair (agent_id, label); an upsert stores the block, and on
\* a pair that exists it keeps the row's original id and replaces value,
\* description, limit and updated_at; get_blocks(agent) returns the blocks of
\* that agent and no others.
C28_OneBlockPerLabel ==
    [][/\ \A r1, r2 \in db'.blocks :
             (r1.agent_id = r2.agent_id /\ r1.label = r2.label) => r1 = r2
       /\ (CallReturns /\ call'.name = "upsert_block")
          => LET block == call'.input.v
                 old == RowsOf(db.blocks, block.agent_id, block.label)
             IN /\ result'.status = "ok"
                /\ RowsOf(db'.blocks, block.agent_id, block.label) =
                      {[block EXCEPT !.id = IF old = {} THEN block.id
                                            ELSE (CHOOSE r \in old : TRUE).id]}
                /\ \A r \in db.blocks : r \notin old => r \in db'.blocks
       /\ (CallReturns /\ call'.name = "get_blocks")
          => /\ result'.status = "ok"
             /\ result'.v = {r \in db.blocks : r.agent_id = call'.input.v}]_vars


---------------------------------------------------------------------------
(* Conflict resolution *)

\* C29: resolve_conflict returns the local value under "last-write-wins",
\* the cloud value under "cloud-wins", and under "merge" the object that
\* holds every key of both sides, with the local value for the keys both
\* have, when both sides are objects, otherwise the local value; the
\* conflict it is given is the same after the call.
C29_ResolvedByPolicy ==
    [][(CallReturns /\ call'.name = "resolve_conflict")
       => LET policy == sync.client.v.conflict_resolution
              local == sync.conflict.v.local_value
              cloud == sync.conflict.v.cloud_value
          IN /\ result'.status = "ok"
             /\ policy = "last-write-wins" => result'.v = local
             /\ policy = "cloud-wins" => result'.v = cloud
             /\ (policy = "merge" /\ local.t = "obj" /\ cloud.t = "obj")
                => /\ result'.v.t = "obj"
                   /\ DOMAIN result'.v.o = DOMAIN local.o \cup DOMAIN cloud.o
                   /\ \A k \in DOMAIN local.o : result'.v.o[k] = local.o[k]
                   /\ \A k \in DOMAIN cloud.o \ DOMAIN local.o :
                         result'.v.o[k] = cloud.o[k]
             /\ (policy = "merge" /\ ~(local.t = "obj" /\ cloud.t = "obj"))
                => result'.v = local
             /\ sync'.conflict = sync.conflict]_vars

\* "merge" of {"a": 1} with the cloud's {"a": 2, "b": 2} has returned
\* {"a": 1, "b": 2}
C29_MergedKeepsLocal ==
    /\ pc = "idle"
    /\ call.name = "resolve_conflict"
    /\ sync.client = Some([conflict_resolution |-> "merge"])
    /\ sync.conflict.some
    /\ sync.conflict.v.local_value = JObj([k \in {"a"} |-> JNum(1)])
    /\ sync.conflict.v.cloud_value = JObj([k \in {"a", "b"} |-> JNum(2)])
    /\ result = ResOk(JObj([k \in {"a", "b"} |-> IF k = "a" THEN JNum(1) ELSE JNum(2)]))


---------------------------------------------------------------------------
(* The summary message *)

\* msgs after one more message and the eviction of the oldest beyond max
PushedOnto(msgs, max, m) ==
    LET all == Append(msgs, m)
    IN SubSeq(all, Len(all) - Min(Len(all), max) + 1, Len(all))

\* C30: in a loop iteration where should_summarize holds after the prompt
\* was assembled, exactly one System message starting with
\* "Context summary: " is appended, the messages already there stay as they
\* are but for the oldest ones evicted by the buffer, and the prompt of the
\* iteration is the one assembled before the summary was appended.
C30_SummaryAppended ==
    [][(/\ pc = "loop"
        /\ iterations' = iterations + 1
        /\ request'.some
        /\ should_summarize(current_tokens', config.max_context_tokens))
       => /\ pc' = "await"
          /\ \E m \in {messages'[Len(messages')]} :
                /\ m.role = "system"
                /\ Len(m.content) >= Len(ContextSummaryPrefix)
                /\ SubSeq(m.content, 1, Len(ContextSummaryPrefix)) = ContextSummaryPrefix
                /\ messages' = PushedOnto(messages, max_size, m)
          /\ request'.v =
                {PromptText(config.system_prompt, memory_str,
                            IncludedMessages(messages, config.max_messages)) :
                 memory_str \in Memory_render(memory)}]_vars


---------------------------------------------------------------------------
(* The conversation section of the prompt *)

\* the last n elements of s, in order
LastN(s, n) == [i \in 1..n |-> s[Len(s) - n + i]]

\* "\n<conversation>\n</conversation>": a conversation section without lines
EmptyConversation ==
    <<10, 60, 99, 111, 110, 118, 101, 114, 115, 97, 116, 105, 111, 110, 62, 10,
      60, 47, 99, 111, 110, 118, 101, 114, 115, 97, 116, 105, 111, 110, 62>>

\* reply_only has just called build_prompt
PromptAssembled ==
    pc = "loop" /\ iterations' = iterations + 1 /\ ~IterationCapExceeded(iterations')

\* C31: build_prompt includes exactly the last min(len(messages),
\* max_messages) messages, in buffer order, each rendered by its role, and
\* counts only those messages in current_tokens; with max_messages = 0 the
\* conversation section is empty.
C31_LastMessagesIncluded ==
    [][PromptAssembled =>
        LET n == Min(Len(messages), config.max_messages)
            included == LastN(messages, n)
        IN /\ current_tokens' = (Len(config.system_prompt) \div 4)
                                + Memory_token_estimate(memory)
                                + SumTokens(included)
           /\ request'.some =>
                /\ request'.v = {PromptText(config.system_prompt, memory_str, included) :
                                   memory_str \in Memory_render(memory)}
                /\ config.max_messages = 0 =>
                     \A text \in request'.v :
                        Suffix(text, Len(EmptyConversation)) = EmptyConversation]_vars

\* a prompt is in flight that leaves out the older of the buffered messages,
\* among them a Tool message
C31_OlderLeftOut ==
    /\ request.some
    /\ config.max_messages = 2
    /\ Len(messages) > 2
    /\ \E i \in 1..(Len(messages) - 2) : messages[i].role = "user"
    /\ messages[Len(messages) - 1].role = "tool"


---------------------------------------------------------------------------
(* The archive across export and import *)

\* C32: exporting an agent and importing the result preserves the agent's
\* archival entries: every archival entry of the exported state is present,
\* in the same order, in the imported state.
C32_ArchivalPreserved ==
    Exported =>
        /\ RoundTrip.ok
        /\ RoundTrip.v.state.archival_entries = archival_entries


---------------------------------------------------------------------------
(* step against send_only followed by reply_only *)

\* a host call of the given method on the given input has just started
Enters(name, input) == ops' = ops + 1 /\ call'.name = name /\ call'.input = input

\* the buffer and updated_at that send_only(text) leaves
Sent(text) ==
    IF is_invalid_empty_message(text)
    THEN [messages |-> messages, updated_at |-> info.updated_at]
    ELSE [messages |-> MessageBuffer_push(messages, max_size, Message_user(text)),
          updated_at |-> now]

\* the rest of the agent is left as it is
RestUnchanged ==
    UNCHANGED <<config, provider, tool_executor, memory, max_size,
                archival_entries, current_tokens>>

\* reply_only's loop is entered, its locals fresh, with the given buffer and
\* updated_at
EntersLoopWith(s) ==
    /\ pc' = "loop"
    /\ iterations' = 0
    /\ tool_trace' = <<>>
    /\ result' = ResNone
    /\ messages' = s.messages
    /\ info' = [info EXCEPT !.updated_at = s.updated_at]
    /\ RestUnchanged

\* C36: step(text) is equivalent to send_only(text) followed by reply_only():
\* for every input and every provider behaviour the two produce the same
\* result or error and the same messages, memory and archival entries.
\* send_only(text) returns Ok(()) and leaves the agent in Sent(text);
\* reply_only() enters its loop with the state it is called in; step(text)
\* enters that loop with exactly Sent(text).  From there both run the one
\* loop on the same state against the same provider.
C36_StepIsSendThenReply ==
    [][\A t \in EquivInputs :
          /\ Enters("send_only", Some(t)) =>
                /\ messages' = Sent(t).messages
                /\ info' = [info EXCEPT !.updated_at = Sent(t).updated_at]
                /\ result' = ResOk(TRUE)
                /\ pc' = "idle"
                /\ RestUnchanged
          /\ Enters("step", Some(t)) => EntersLoopWith(Sent(t))
          /\ Enters("reply_only", None) =>
                EntersLoopWith([messages |-> messages,
                                updated_at |-> info.updated_at])]_vars

\* step on an input of quotes and whitespace has entered the loop with the
\* buffer send_only leaves on that input: the one it found
C36_StepSentNothing ==
    /\ pc = "loop"
    /\ call.name = "step"
    /\ iterations = 0
    /\ \E i \in DOMAIN call.input.v : call.input.v[i] = 34
    /\ \E i \in DOMAIN call.input.v : call.input.v[i] = 32
    /\ pushed = <<>>
    /\ Len(messages) = call.len_before


---------------------------------------------------------------------------
(* Disabled tools *)

\* C37: when tools_enabled is false, a step passes an empty tool list to the
\* provider and executes no tool handler, so memory blocks and archival
\* entries are not changed by the step even when the provider's completion
\* contains tool calls.
C37_DisabledToolsNotExecuted ==
    [][(~config.tools_enabled /\ pc = "await") =>
          /\ RequestTools(config, tool_executor) = {}
          /\ tool_trace' = tool_trace
          /\ UNCHANGED <<memory, archival_entries>>]_vars


---------------------------------------------------------------------------
(* A step that ends in ContextOverflow *)

\* the loop iteration that has just run ended the call with ContextOverflow
Overflows ==
    /\ pc = "loop"
    /\ pc' = "idle"
    /\ result'.status = "err"
    /\ result'.err.kind = "ContextOverflow"

\* the failing iteration called no provider, ran no tool and left the state
\* as it found it
NothingDoneInIteration ==
    /\ provider_calls' = provider_calls
    /\ tool_trace' = tool_trace
    /\ iter_pushed' = <<>>
    /\ UNCHANGED <<memory, archival_entries, messages, pushed>>

\* C38 as stated: a step that fails with ContextOverflow makes no provider
\* call and executes no tool in the failing iteration, and the User message
\* that the step appended before prompt assembly stays in the buffer, so the
\* buffer after the failed step is the buffer before it plus that one User
\* message.
C38_OnlyUserMessageAdded ==
    [][(Overflows /\ call.name = "step") =>
          /\ NothingDoneInIteration
          /\ pushed' = <<Message_user(call.input.v)>>
          /\ Len(messages') = call.len_before + 1
          /\ Last(messages') = Message_user(call.input.v)]_vars

\* C38, amended: a step that fails with ContextOverflow makes no provider
\* call and executes no tool in the failing iteration and removes nothing the
\* step appended: the buffer after the failed step is the buffer before it
\* followed by the messages the step appended, the oldest messages dropped
\* beyond the buffer's capacity.  Those messages are the User message when
\* the input is substantive and, when the failure comes in a later iteration,
\* the Tool messages, envelopes and summary messages of the iterations
\* before it; a failure in the first iteration leaves the User message alone.
C38_AppendedMessagesStay ==
    [][(Overflows /\ call.name = "step") =>
          LET n == Min(Len(pushed), max_size)
              text == call.input.v
          IN /\ NothingDoneInIteration
             /\ Len(messages') = Min(max_size, call.len_before + Len(pushed))
             /\ Suffix(messages', n) = Suffix(pushed, n)
             /\ IF is_invalid_empty_message(text)
                THEN Count(pushed, "user") = 0
                ELSE pushed[1] = Message_user(text) /\ Count(pushed, "user") = 1
             /\ iterations' = 1 =>
                   pushed \in {<<>>, <<Message_user(text)>>}]_vars

\* a step has failed with ContextOverflow in its second iteration, the User
\* message and the first iteration's Tool message and envelope in the buffer
C38_OverflowAfterTools ==
    /\ pc = "idle"
    /\ call.name = "step"
    /\ result.status = "err"
    /\ result.err.kind = "ContextOverflow"
    /\ iterations = 2
    /\ Len(pushed) = 3
    /\ pushed[1].role = "user"
    /\ pushed[2].role = "tool"
    /\ messages = pushed


---------------------------------------------------------------------------
(* The memory across export and import *)

\* the memory variant a memory_class names
VariantOf(memory_class) ==
    IF memory_class = BasicMemoryClass THEN "basic" ELSE "chat"

\* the labels of the blocks a document's memory references
ReferencedLabels(doc) ==
    LET ids == doc.agents[1].agent_state.memory.blocks
    IN {doc.blocks[i].label :
          i \in {j \in DOMAIN doc.blocks :
                   \E k \in DOMAIN ids : ids[k] = doc.blocks[j].id}}

\* C39: import reproduces the exported memory exactly: the imported state
\* has the memory variant named by memory_class (Basic for "BasicMemory",
\* Chat for "ChatMemory") and its set of block labels equals the set of
\* blocks referenced by the document, with no block added that the document
\* does not reference.
C39_MemoryReproduced ==
    [][(ops' = ops + 1 /\ call'.name = "load_af" /\ result'.status = "ok") =>
          LET doc == from_json(call'.input.v).v
              imported == AgentFile_import(doc).v.state
          IN /\ imported.memory_type
                    = VariantOf(doc.agents[1].agent_state.memory.memory_class)
             /\ DOMAIN imported.memory = ReferencedLabels(doc)
             /\ DOMAIN memory' = ReferencedLabels(doc)]_vars


---------------------------------------------------------------------------
(* Steps through the host binding                                          *)

\* thread u's call reaches an agent in this step: the slot check passed and
\* the agent in the slot is read or changed
Reaches(u, index) ==
    /\ host_calls[u].pc = "called" \/ host_calls[u].pc = "sync_agents"
    /\ host_calls[u].reached = None
    /\ host_calls'[u].reached = Some(index)

\* thread t is inside agent.step of its letta_converse call
Stepping(t) == host_calls[t].pc = "step"

\* C33: through the host binding step executions never interleave.  While a
\* letta_converse call is running its step it holds AGENTS, no other call
\* reaches an agent, the agents change only as that step ends, and a call
\* that reaches an agent finds no step in progress on it.
C33_StepsNeverInterleave ==
    [][/\ \A t \in Threads :
            Stepping(t) =>
               /\ AGENTS.owner = Some(t)
               /\ \A u \in Threads \ {t} : \A index \in 0..MaxAgents :
                     ~Reaches(u, index)
               /\ AGENTS'.v # AGENTS.v => ~Stepping(t)'
       /\ \A u \in Threads : \A index \in 0..MaxAgents :
            Reaches(u, index) => ~AGENTS.v[index + 1].v.stepping]_vars

\* a letta_set_block call on an agent waits while a step runs on that agent
C33_CallWaitsForStep ==
    \E t, u \in Threads :
       /\ Stepping(t)
       /\ Called(u, "letta_set_block")
       /\ host_calls[u].handle.some
       /\ handles[host_calls[u].handle.v].live
       /\ Some(handles[host_calls[u].handle.v].index) = host_calls[t].reached


---------------------------------------------------------------------------
(* The binding's locks                                                     *)

\* thread t is in a binding call
InCall(t) == host_calls[t].pc \in {"called", "step", "sync_agents"}

\* thread t's call is over: it returned, it panicked, or the process was
\* aborted under it
Ended(t) == host_calls[t].pc \in {"idle", "aborted"}

\* thread t holds the mutex
Holds(t, m) == m.owner = Some(t)

\* the mutex thread t's call takes in its next step, if it takes one
Wants(t, m) ==
    CASE host_calls[t].pc = "sync_agents" -> m = "AGENTS"
      [] host_calls[t].pc = "called" /\ ~host_calls[t].handle.some
           /\ host_calls[t].fn \in AgentFunctions -> FALSE
      [] host_calls[t].pc = "called" /\ ~host_calls[t].valid
           /\ host_calls[t].fn # "letta_load_af"
           /\ host_calls[t].fn # "letta_set_block"
           /\ host_calls[t].fn # "letta_get_block" -> FALSE
      [] host_calls[t].pc = "called" ->
           CASE host_calls[t].fn = "letta_init_storage" -> m = "STORAGE"
             [] host_calls[t].fn \in {"letta_configure_sync", "letta_sync_with_cloud"} ->
                  m = "SYNC_CLIENT"
             [] OTHER -> m = "AGENTS"
      [] OTHER -> FALSE

\* in a running process a thread that holds AGENTS takes no further lock, a
\* thread that holds SYNC_CLIENT takes AGENTS only, and STORAGE is held
\* across no step
LockOrder ==
    \A t \in Threads :
       host_calls[t].pc # "aborted" =>
          /\ Holds(t, AGENTS) => /\ ~Wants(t, "SYNC_CLIENT")
                                 /\ ~Wants(t, "STORAGE")
                                 /\ ~Wants(t, "AGENTS")
          /\ Holds(t, SYNC_CLIENT) => Wants(t, "AGENTS") /\ ~Holds(t, AGENTS)
          /\ ~Holds(t, STORAGE)

\* C34: the binding's locks cannot deadlock.  SYNC_CLIENT is taken before
\* AGENTS by the one function that holds both, no function takes
\* SYNC_CLIENT or STORAGE while it holds AGENTS, and under any interleaving
\* every binding call comes to its end.
C34_EveryCallEnds ==
    /\ []LockOrder
    /\ \A t \in Threads : InCall(t) ~> Ended(t)

\* letta_sync_with_cloud holds SYNC_CLIENT and waits for AGENTS, which a
\* letta_converse call of another thread holds for its step
C34_SyncWaitsForStep ==
    \E t, u \in Threads :
       /\ host_calls[t].pc = "sync_agents"
       /\ Holds(t, SYNC_CLIENT)
       /\ Stepping(u)
       /\ Holds(u, AGENTS)


---------------------------------------------------------------------------
(* Indices of the registry                                                 *)

\* the index letta_create_agent returned with the k-th handle
IndexOf(k) == handles[k].index

\* every letta_create_agent returned the number of agents created before it
IndicesNeverReused == \A k \in DOMAIN handles : IndexOf(k) = k - 1

\* an emptied slot of the registry stays empty
FreedForGood ==
    [][\A k \in DOMAIN AGENTS.v : ~AGENTS.v[k].some => ~AGENTS'.v[k].some]_vars

\* thread t's call was made on the handle of a freed index and is over
CallOnFreed(t) ==
    /\ host_calls[t].pc = "idle"
    /\ host_calls[t].fn \in AgentFunctions \ {"letta_free_agent"}
    /\ host_calls[t].freed

\* C35: indices of the registry are never reused.  Each letta_create_agent
\* returns the number of agents created before it, letta_free_agent empties
\* the slot for good, and every binding call on a freed index reports
\* failure and reaches no other agent.
C35_FreedIndexFails ==
    [][/\ IndicesNeverReused
       /\ \A k \in DOMAIN AGENTS.v : ~AGENTS.v[k].some => ~AGENTS'.v[k].some
       /\ \A t \in Threads :
             CallOnFreed(t)' =>
                /\ host_calls'[t].ret # "success"
                /\ host_calls'[t].reached = None]_vars

====
